---- MODULE Spec2Model ----
(***************************************************************************)
(* A model of redisx: the sharded store (src/src/core/store.cpp), the      *)
(* command router (src/src/core/router.cpp), the sweep timer               *)
(* (src/app/main.cpp) and the per-connection pipeline                      *)
(* (src/src/net/session.cpp, include/redisx/util/thread_pool.hpp), and the *)
(* expiry index ttl::Index (src/src/time/ttl.cpp).                         *)
(*                                                                         *)
(* Time is counted in clock ticks, TicksPerMs ticks to the millisecond:    *)
(* std::chrono::steady_clock is finer than the millisecond that            *)
(* Shard::ttl_ms reports.  Every Shard method body runs under the shard's  *)
(* mutex, so one call is one atomic step; a timestamp a caller takes       *)
(* before the lock may be any instant between the caller's previous step   *)
(* and the moment the body runs (Sample).                                  *)
(***************************************************************************)
EXTENDS Integers, Sequences, FiniteSets, TLC

\* ------------------------------------------------------------------ bounds

TicksPerMs == 2          \* resolution of the clock below one millisecond
MaxCmds    == 2          \* frames dispatched to the router in one run of Spec
MaxRaceCmds == 4         \* frames dispatched to the router in one run of RaceSpec
MaxExpiryCmds == 2       \* frames dispatched to the router in one run of ExpirySpec
MaxArgCmds == 2          \* frames dispatched to the router in one run of ArgSpec
MaxTypeCmds == 2         \* frames dispatched to the router in one run of TypeSpec
MaxMsetCmds == 3         \* frames dispatched to the router in one run of MsetSpec
MaxLinCmds == 3          \* frames dispatched to the router in one run of LinSpec
MaxSweepCmds == 2        \* frames dispatched to the router in one run of SweepSpec
MaxClampCmds == 3        \* frames dispatched to the router in one run of ClampSpec
MaxLockCmds == 2         \* frames dispatched to the router in one run of LockSpec
MaxOrderCmds == 2        \* frames dispatched to the router in one run of OrderSpec
MaxFrames == 2           \* frames in the byte stream of one run of StreamSpec
MaxExtendCmds == 3       \* frames dispatched to the router in one run of ExtendSpec
MaxIndexCalls == 4       \* calls of set, clear and sweep_due in one run of IndexSpec
MaxWhen    == 2          \* the latest deadline and the latest sweep instant of IndexSpec
MaxInput   == 3          \* inputs a client sends on the connection
MaxStrand  == 3          \* handlers waiting on the strand while the read callback spins
MaxClock   == 2          \* the last instant of a run, in ticks
MaxSweeps  == 1          \* firings of the sweep timer in one run
NumShards  == 2          \* Store::Store(n)
NumWorkers == 2          \* ThreadPool::ThreadPool(n)

MsPerSec   == 1000       \* std::chrono::seconds -> milliseconds

Keys    == {"k", "j"}
Values  == {"v", "w"}
Fields  == {"f", "g"}
Workers == 1..NumWorkers
ShardIx == 0..(NumShards - 1)

\* The instants of a run.
Instants == 0..MaxClock

Ms(n)  == n * TicksPerMs              \* std::chrono::milliseconds(n) as a duration
Sec(n) == n * MsPerSec * TicksPerMs   \* std::chrono::seconds(n) as a duration

\* ------------------------------------------------------- std::unordered_map

EmptyMap    == << >>
Has(m, k)   == k \in DOMAIN m
Erase(m, k) == [x \in (DOMAIN m) \ {k} |-> m[x]]
Put(m, k, v) == [x \in (DOMAIN m) \cup {k} |-> IF x = k THEN v ELSE m[x]]

\* std::optional<std::string>
nullopt  == << >>
Some(v)  == << v >>

\* ------------------------------------------------------------------- Shard
\* A shard is the record of its three maps; each method is an operator from
\* the shard (and the arguments) to the shard it leaves and the value it returns.

EmptyShard == [map_ |-> EmptyMap, ttl_ |-> EmptyMap, hmap_ |-> EmptyMap]

EraseAll(sh, k) ==
    [map_ |-> Erase(sh.map_, k), ttl_ |-> Erase(sh.ttl_, k), hmap_ |-> Erase(sh.hmap_, k)]

is_expired_unlocked(sh, k, now) ==
    IF ~Has(sh.ttl_, k) THEN FALSE ELSE now >= sh.ttl_[k]

get(sh, k, now) ==
    IF is_expired_unlocked(sh, k, now)
    THEN [sh |-> EraseAll(sh, k), ret |-> nullopt]
    ELSE IF ~Has(sh.map_, k) THEN [sh |-> sh, ret |-> nullopt]
         ELSE [sh |-> sh, ret |-> Some(sh.map_[k])]

set(sh, k, v, now) ==
    LET s1 == IF is_expired_unlocked(sh, k, now)
              THEN [sh EXCEPT !.ttl_ = Erase(@, k), !.hmap_ = Erase(@, k)]
              ELSE sh
    IN [sh |-> [s1 EXCEPT !.map_ = Put(@, k, v), !.hmap_ = Erase(@, k)], ret |-> TRUE]

del(sh, k) ==
    [sh |-> EraseAll(sh, k), ret |-> (Has(sh.map_, k) \/ Has(sh.hmap_, k))]

set_expire(sh, k, tp) ==
    IF Has(sh.map_, k) \/ Has(sh.hmap_, k)
    THEN [sh |-> [sh EXCEPT !.ttl_ = Put(@, k, tp)], ret |-> TRUE]
    ELSE [sh |-> sh, ret |-> TRUE]

\* std::chrono::duration_cast<milliseconds>: truncation toward zero
duration_cast_ms(d) ==
    IF d >= 0 THEN d \div TicksPerMs ELSE -((-d) \div TicksPerMs)

\* Shard::ttl_ms that evicts the key whose deadline has passed.
ttl_ms_evicting(sh, k, now) ==
    IF is_expired_unlocked(sh, k, now) THEN [sh |-> EraseAll(sh, k), ret |-> -2]
    ELSE IF ~(Has(sh.map_, k) \/ Has(sh.hmap_, k)) THEN [sh |-> sh, ret |-> -2]
    ELSE IF ~Has(sh.ttl_, k) THEN [sh |-> sh, ret |-> -1]
    ELSE [sh |-> sh, ret |-> duration_cast_ms(sh.ttl_[k] - now)]

ttl_ms(sh, k, now) ==
    LET exists == Has(sh.map_, k) \/ Has(sh.hmap_, k)
    IN IF ~exists THEN [sh |-> sh, ret |-> -2]
       ELSE IF ~Has(sh.ttl_, k) THEN [sh |-> sh, ret |-> -1]
       ELSE LET remain == duration_cast_ms(sh.ttl_[k] - now)
            IN IF remain <= 0 THEN [sh |-> sh, ret |-> -2]
               ELSE [sh |-> sh, ret |-> remain]

clear_expire(sh, k) ==
    [sh |-> [sh EXCEPT !.ttl_ = Erase(@, k)], ret |-> TRUE]

\* Shard::sweep that erases the values of the expired keys and forgets ttl_.
sweep_values_only(sh, now) ==
    LET dead == { k \in DOMAIN sh.ttl_ : now >= sh.ttl_[k] } IN
    [sh EXCEPT !.map_  = [k \in (DOMAIN sh.map_) \ dead |-> sh.map_[k]],
               !.hmap_ = [k \in (DOMAIN sh.hmap_) \ dead |-> sh.hmap_[k]]]

sweep(sh, now) ==
    LET to_erase == {k \in DOMAIN sh.ttl_ : now >= sh.ttl_[k]}
    IN [map_  |-> [x \in (DOMAIN sh.map_) \ to_erase |-> sh.map_[x]],
        ttl_  |-> [x \in (DOMAIN sh.ttl_) \ to_erase |-> sh.ttl_[x]],
        hmap_ |-> [x \in (DOMAIN sh.hmap_) \ to_erase |-> sh.hmap_[x]]]

hset(sh, key, field, value, now) ==
    LET s1 == IF is_expired_unlocked(sh, key, now) THEN EraseAll(sh, key) ELSE sh
        hm == IF Has(s1.hmap_, key) THEN s1.hmap_[key] ELSE EmptyMap
    IN [sh  |-> [s1 EXCEPT !.hmap_ = Put(@, key, Put(hm, field, value))],
        ret |-> IF Has(hm, field) THEN 0 ELSE 1]

hget(sh, key, field, now) ==
    IF is_expired_unlocked(sh, key, now) THEN [sh |-> sh, ret |-> nullopt]
    ELSE IF ~Has(sh.hmap_, key) THEN [sh |-> sh, ret |-> nullopt]
    ELSE IF ~Has(sh.hmap_[key], field) THEN [sh |-> sh, ret |-> nullopt]
    ELSE [sh |-> sh, ret |-> Some(sh.hmap_[key][field])]

hdel(sh, key, field, now) ==
    IF is_expired_unlocked(sh, key, now) THEN [sh |-> EraseAll(sh, key), ret |-> 0]
    ELSE IF ~Has(sh.hmap_, key) THEN [sh |-> sh, ret |-> 0]
    ELSE LET hm == Erase(sh.hmap_[key], field)
         IN [sh  |-> IF DOMAIN hm = {}
                     THEN [sh EXCEPT !.hmap_ = Erase(@, key)]
                     ELSE [sh EXCEPT !.hmap_ = Put(@, key, hm)],
             ret |-> IF Has(sh.hmap_[key], field) THEN 1 ELSE 0]

hexists(sh, key, field, now) ==
    IF is_expired_unlocked(sh, key, now) THEN [sh |-> sh, ret |-> 0]
    ELSE IF ~Has(sh.hmap_, key) THEN [sh |-> sh, ret |-> 0]
    ELSE [sh |-> sh, ret |-> IF Has(sh.hmap_[key], field) THEN 1 ELSE 0]

hlen(sh, key, now) ==
    IF is_expired_unlocked(sh, key, now) THEN [sh |-> sh, ret |-> 0]
    ELSE IF ~Has(sh.hmap_, key) THEN [sh |-> sh, ret |-> 0]
    ELSE [sh |-> sh, ret |-> Cardinality(DOMAIN sh.hmap_[key])]

\* The field -> value pairs the call walks; their order is the map's, unspecified.
hgetall(sh, key, now) ==
    IF is_expired_unlocked(sh, key, now) THEN [sh |-> sh, ret |-> EmptyMap]
    ELSE IF ~Has(sh.hmap_, key) THEN [sh |-> sh, ret |-> EmptyMap]
    ELSE [sh |-> sh, ret |-> sh.hmap_[key]]

type_of(sh, key, now) ==
    IF is_expired_unlocked(sh, key, now) THEN [sh |-> EraseAll(sh, key), ret |-> "None"]
    ELSE IF Has(sh.map_, key) THEN [sh |-> sh, ret |-> "String"]
    ELSE IF Has(sh.hmap_, key) THEN [sh |-> sh, ret |-> "Hash"]
    ELSE [sh |-> sh, ret |-> "None"]

\* ------------------------------------------------------------------- Store

\* std::hash<std::string>: some fixed function of the key
std_hash(key) == IF key = "k" THEN 1 ELSE 2

shard_for(key) == std_hash(key) % NumShards

\* ------------------------------------------------------------ state

VARIABLES
    shards_,    \* Store::shards_: shard index -> the shard's three maps
    clock,      \* std::chrono::steady_clock, in ticks
    args,       \* per worker: the frame being dispatched (a[0] is args[w][1])
    pc,         \* per worker: "idle", or the Shard call its handler makes next
    loc,        \* per worker: the handler's locals (i, a counter, now, the array so far)
    seen,       \* per worker: the clock at the worker's previous step
    obs,        \* history: the Shard call of the latest handler step, what it saw and returned
    reply,      \* history: the reply the latest step returned (<< >> when it returned none)
    wrote,      \* history: per key, the frame whose Shard call last wrote or deleted it
    sock,       \* Session: what the client sent and async_read_some has not delivered yet
    pending_,   \* Session::pending_, as the inputs it holds
    reading,    \* the I/O thread is inside the read callback of do_read
    nextId,     \* history: the number of the next request parsed from the connection
    q_,         \* ThreadPool::q_, the jobs by their request
    job,        \* per pool thread, the request of the job it runs (0: it waits on q_)
    strand_,    \* the handlers posted to Session::strand_, by the reply they enqueue
    outq_,      \* Session::outq_
    wire,       \* history: the replies async_write completed on the socket, in order
    inflight,   \* the messages of the async_write operations started and not completed
    issued,     \* frames dispatched so far
    sweepI,     \* Store::sweep_all: the next shard to sweep (NumShards when the timer is idle)
    sweepNow,   \* Store::sweep_all: the timestamp taken before the loop
    sweeps,     \* firings of the sweep timer so far
    framed,     \* history: Some(X) when the client sends resp_array(X, true) (in StreamSpec
                \* X is the list of the frames it sends), else nullopt
    stream,     \* the bytes the client sends on the connection
    fed,        \* how many of them Session::pending_ holds
    res,        \* what parse_resp returned for those bytes
    was,        \* history: what parse_resp returned before the latest read
    readErr,    \* async_read_some completed with an error: do_read is not rearmed
    writeErr,   \* async_write completed with an error: no write is in flight any more
    mu_,        \* Shard::mu_ of every shard: the threads between taking it and their method's body
    impl_,      \* ttl::Index::impl_: heap, gens, expires and next_gen
    sweeping,   \* Some(at) while a call of Index::sweep_due(at, on_expire) runs, else nullopt
    calls,      \* calls of Index::set, Index::clear and Index::sweep_due so far
    latest,     \* history: per key, Some(when) when the key's latest call on the index is
                \* set(key, when), nullopt when it is clear(key) or there was none
    told,       \* history: the keys whose latest set has been passed to on_expire
    out         \* history: what the latest sweep_due passed to on_expire, in order

storeVars  == << shards_, clock, sweepI, sweepNow, sweeps >>
workerVars == << args, pc, loc, seen, obs, reply, wrote, issued >>
sessionVars == << sock, pending_, reading, nextId, q_, job, strand_, outq_, wire, inflight >>
parserVars == << framed, stream, fed, res, was >>
transportVars == << readErr, writeErr >>
lockVars == << mu_ >>
indexVars == << impl_, sweeping, calls, latest, told, out >>

\* std::shared_mutex.  mu_[s] holds << t, mode >> for every thread t that has
\* taken the lock of shard s in that mode and has not run its method's body yet.
\* A step that runs a body alone has taken the lock within the step.
Sweeper == 0                 \* the thread of io.run(), which runs Store::sweep_all

\* The mode in which the Shard method takes mu_.
LockOf(op) ==
    IF op \in {"ttl_ms", "hget", "hexists", "hlen", "hgetall"} THEN "shared" ELSE "unique"

\* lock() waits while any thread holds the mutex, lock_shared() while a thread
\* holds it in exclusive mode.
CanLock(s, mode) ==
    IF mode = "unique" THEN mu_[s] = {} ELSE \A h \in mu_[s] : h[2] = "shared"

Lock(s, t, mode) == [mu_ EXCEPT ![s] = @ \cup {<< t, mode >>}]

\* A lock that outlives the method that took it.
Unlock_kept(s, t) == mu_

\* The destructor of the method's lock when the method returns.
Unlock(s, t) == [mu_ EXCEPT ![s] = {h \in @ : h[1] # t}]

\* ------------------------------------------------------------ RESP emitters
\* A reply is the tag of its first byte(s) and its payload.

resp_simple(s)  == << "+", s >>
resp_error(s)   == << "-ERR", s >>
resp_bulk(s)    == << "$", s >>
resp_nil        == << "$-1" >>
resp_int(v)     == << ":", v >>
resp_array(items) == << "*", [i \in 1..Len(items) |-> resp_bulk(items[i])] >>
resp_wrongtype  ==
    << "-WRONGTYPE", "Operation against a key holding the wrong kind of value" >>

\* ------------------------------------------------------------ RESP parser
\* Buffers are sequences of bytes; offsets count from 0 as in the code.

CR == "\r"
LF == "\n"
CRLF == << CR, LF >>

DigitChars == << "0", "1", "2", "3", "4", "5", "6", "7", "8", "9" >>
IsDigit(c) == \E i \in 1..10 : DigitChars[i] = c
DigitVal(c) == (CHOOSE i \in 1..10 : DigitChars[i] = c) - 1

\* std::numeric_limits<long long>::max(), with long long as wide as the
\* integers of the model checker (32 bits).
LLongMax == 2147483647

\* sizeof(std::string); std::vector<std::string>::max_size() is the largest
\* element count whose byte size fits.
StringSize == 32
max_size == LLongMax \div StringSize

At(data, i) == data[i + 1]
Slice(data, from, to) == SubSeq(data, from + 1, to)

\* parse_ll: the loop from index i (from 1) with the value v read so far.
RECURSIVE parse_ll_loop(_, _, _)
parse_ll_loop(s, i, v) ==
    IF i > Len(s) THEN [ok |-> TRUE, v |-> v]
    ELSE IF ~IsDigit(s[i]) THEN [ok |-> FALSE, v |-> 0]
    ELSE LET d == DigitVal(s[i]) IN
         IF v > (LLongMax - d) \div 10 THEN [ok |-> FALSE, v |-> 0]
         ELSE parse_ll_loop(s, i + 1, v * 10 + d)

parse_ll(s) ==
    IF s = << >> THEN [ok |-> FALSE, v |-> 0]
    ELSE LET neg == s[1] = "-"
             r == parse_ll_loop(s, IF neg THEN 2 ELSE 1, 0)
         IN IF r.ok /\ neg THEN [ok |-> TRUE, v |-> 0 - r.v] ELSE r

\* read_line that takes a CR at the end of the buffer for the end of a line.
read_line_lone_cr(data, off) ==
    LET ends == { i \in off .. Len(data) - 1 : At(data, i) = CR }
    IN IF ends = {} THEN [ok |-> FALSE, line_end |-> 0]
       ELSE [ok |-> TRUE, line_end |-> CHOOSE i \in ends : \A j \in ends : i <= j]

read_line(data, off) ==
    LET ends == { i \in off .. Len(data) - 2 : At(data, i) = CR /\ At(data, i + 1) = LF }
    IN IF ends = {} THEN [ok |-> FALSE, line_end |-> 0]
       ELSE [ok |-> TRUE, line_end |-> CHOOSE i \in ends : \A j \in ends : i <= j]

get_line(data, off) ==
    LET r == read_line(data, off)
    IN IF ~r.ok THEN [ok |-> FALSE, start |-> 0, end |-> 0, next |-> 0]
       ELSE [ok |-> TRUE, start |-> off, end |-> r.line_end, next |-> r.line_end + 2]

\* RespParseResult; thrown names the exception that left parse_resp instead.
NeedMore == [arr |-> nullopt, error |-> "", consumed |-> 0, thrown |-> ""]
ProtoError(msg, n) == [arr |-> nullopt, error |-> msg, consumed |-> n, thrown |-> ""]
Frame(a, n) == [arr |-> Some(a), error |-> "", consumed |-> n, thrown |-> ""]
Thrown(what) == [arr |-> nullopt, error |-> "", consumed |-> 0, thrown |-> what]

\* The loop of parse_resp over the n bulk strings, at element i and offset
\* off, with the arguments read so far.
RECURSIVE parse_bulks(_, _, _, _, _)
parse_bulks(data, off, i, n, a) ==
    LET len == Len(data) IN
    IF i >= n THEN Frame(a, off)
    ELSE IF off >= len THEN NeedMore
    ELSE IF At(data, off) # "$" THEN ProtoError("protocol error: expected bulk string", off)
    ELSE LET L2 == get_line(data, off + 1) IN
         IF ~L2.ok THEN NeedMore
         ELSE LET b == parse_ll(Slice(data, off + 1, L2.end)) IN
              IF ~b.ok THEN ProtoError("protocol error: bad bulk length", L2.next)
              ELSE IF b.v = -1 THEN parse_bulks(data, L2.next, i + 1, n, Append(a, << >>))
              ELSE IF b.v < 0 THEN ProtoError("protocol error: negative bulk length", L2.next)
              \* off + blen + 2 > len, which cannot wrap in std::size_t
              ELSE IF b.v > len - L2.next - 2 THEN NeedMore
              ELSE LET end == L2.next + b.v IN
                   IF end + 1 >= len \/ At(data, end) # CR \/ At(data, end + 1) # LF
                   THEN ProtoError("protocol error: bulk missing CRLF", end)
                   ELSE parse_bulks(data, end + 2, i + 1, n,
                                    Append(a, Slice(data, L2.next, end)))

parse_resp(data) ==
    IF Len(data) = 0 THEN NeedMore
    ELSE IF At(data, 0) # "*" THEN ProtoError("protocol error: expected array", 0)
    ELSE LET L == get_line(data, 1) IN
         IF ~L.ok THEN NeedMore
         ELSE LET n == parse_ll(Slice(data, 1, L.end)) IN
              IF ~n.ok \/ n.v < 0
              THEN ProtoError("protocol error: bad array length", L.next)
              ELSE IF n.v > max_size THEN Thrown("std::length_error")
              ELSE parse_bulks(data, L.next, 0, n.v, << >>)

RECURSIVE Decimal(_)
\* operator<< that writes the last digit only.
Decimal_units(n) == << DigitChars[(n % 10) + 1] >>

\* operator<< of a std::size_t
Decimal(n) ==
    IF n < 10 THEN << DigitChars[n + 1] >>
    ELSE Decimal(n \div 10) \o << DigitChars[(n % 10) + 1] >>

\* The loop of resp_array with as_bulk, over the items left.
RECURSIVE bulk_items(_)
bulk_items(items) ==
    IF items = << >> THEN << >>
    ELSE << "$" >> \o Decimal(Len(Head(items))) \o CRLF \o Head(items) \o CRLF
         \o bulk_items(Tail(items))

\* resp_array(items, true), as the bytes it returns.
resp_array_bytes(items) ==
    << "*" >> \o Decimal(Len(items)) \o CRLF \o bulk_items(items)

\* ------------------------------------------------------------ Router helpers

\* upper(): std::toupper of every character, on the names the frames use
upper(s) ==
    CASE s = "get" -> "GET"
      [] s = "set" -> "SET"
      [] s = "ex"  -> "EX"
      [] s = "px"  -> "PX"
      [] OTHER     -> s

\* std::stoll on the numerals the frames use; anything else throws
StollTable == [x \in {"-1", "0", "1", "2"} |->
                 CASE x = "-1" -> -1 [] x = "0" -> 0 [] x = "1" -> 1 [] x = "2" -> 2]
stoll_ok(s) == s \in DOMAIN StollTable
stoll(s)    == StollTable[s]

loc0 == [i |-> 0, n |-> 0, now |-> 0, out |-> << >>]
NoObs == [op |-> "none"]

Sh(key)   == shards_[shard_for(key)]
A(w, i)   == args[w][i + 1]          \* the C++ a[i]
Size(w)   == Len(args[w])            \* the C++ a.size()
Cmd(w)    == IF Len(args[w]) = 0 THEN "" ELSE upper(args[w][1])

\* The instants a timestamp taken by worker w before the lock can show.
Late == { Sec(1) + t : t \in Instants }      \* the instants a second after these
Sample(w) == {t \in Instants \cup Late : seen[w] <= t /\ t <= clock}

Present(sh, k) == Has(sh.map_, k) \/ Has(sh.hmap_, k) \/ Has(sh.ttl_, k)
KindOf(sh, k) ==
    IF Has(sh.map_, k) THEN (IF Has(sh.hmap_, k) THEN "both" ELSE "string")
    ELSE IF Has(sh.hmap_, k) THEN "hash" ELSE "none"
DeadlineOf(sh, k) == IF Has(sh.ttl_, k) THEN sh.ttl_[k] ELSE -1

\* Worker w runs the body of Shard method op on key under the shard's lock;
\* r is what the method leaves and returns, ts the timestamp it was given or took
\* (-1 for a method that reads no clock).  obs records the call: the frame, the
\* key's deadline and kind before the call, the clock at the call, what the call
\* returned (with the method that returned it), whether the key is in none of
\* the three maps after it, its kind and deadline after it, and the fields the
\* hash at the key had before it.
Observed(a, op, key, ts, r) ==
    [op |-> op, args |-> a, key |-> key, ts |-> ts, clk |-> clock,
     dl |-> DeadlineOf(Sh(key), key), had |-> KindOf(Sh(key), key),
     fields |-> IF Has(Sh(key).hmap_, key) THEN DOMAIN Sh(key).hmap_[key] ELSE {},
     ret |-> << op, r.ret >>, gone |-> ~Present(r.sh, key),
     left |-> KindOf(r.sh, key), dlleft |-> DeadlineOf(r.sh, key)]

\* The methods a command writes or deletes a key with.
Writers == {"set", "set_expire", "clear_expire", "del", "hset", "hdel"}

ShardCall(w, op, key, ts, r) ==
    /\ shards_' = [shards_ EXCEPT ![shard_for(key)] = r.sh]
    /\ obs' = Observed(args[w], op, key, ts, r)
    /\ wrote' = IF op \in Writers THEN [wrote EXCEPT ![key] = args[w]] ELSE wrote
    /\ mu_' = Unlock(shard_for(key), w)
    /\ UNCHANGED indexVars
    /\ UNCHANGED << clock, sweepI, sweepNow, sweeps, issued >>
    /\ UNCHANGED sessionVars
    /\ UNCHANGED parserVars
    /\ UNCHANGED transportVars

\* The handler returns rep: the worker posts the reply and is free again.
Finish(w, rep) ==
    /\ reply' = rep
    /\ pc' = [pc EXCEPT ![w] = "idle"]
    /\ args' = [args EXCEPT ![w] = << >>]
    /\ loc' = [loc EXCEPT ![w] = loc0]
    /\ seen' = [seen EXCEPT ![w] = 0]

\* The handler goes on to its next Shard call, with locals l.
Goto(w, label, l) ==
    /\ reply' = << >>
    /\ pc' = [pc EXCEPT ![w] = label]
    /\ loc' = [loc EXCEPT ![w] = l]
    /\ seen' = [seen EXCEPT ![w] = clock]
    /\ UNCHANGED args

\* ------------------------------------------------------------ Router handlers
\* One definition per handler of Router::Router; one disjunct per Shard call the
\* handler makes.  The handler's checks before its first Shard call are in Entry.

H_GET(w) ==
    /\ Cmd(w) = "GET"
    /\ \/ /\ pc[w] = "type_of"
          /\ \E now \in Sample(w) :
               LET r == type_of(Sh(A(w, 1)), A(w, 1), now) IN
               /\ ShardCall(w, "type_of", A(w, 1), now, r)
               /\ IF r.ret = "Hash" THEN Finish(w, resp_wrongtype)
                                    ELSE Goto(w, "get", loc[w])
       \/ /\ pc[w] = "get"
          /\ \E now \in Sample(w) :
               LET r == get(Sh(A(w, 1)), A(w, 1), now) IN
               /\ ShardCall(w, "get", A(w, 1), now, r)
               /\ Finish(w, IF r.ret = nullopt THEN resp_nil ELSE resp_bulk(r.ret[1]))

H_DEL(w) ==
    /\ Cmd(w) = "DEL"
    /\ pc[w] = "del"
    /\ LET r == del(Sh(A(w, 1)), A(w, 1)) IN
       /\ ShardCall(w, "del", A(w, 1), -1, r)
       /\ Finish(w, resp_int(IF r.ret THEN 1 ELSE 0))

\* loc.n is sec
H_EXPIRE(w) ==
    /\ Cmd(w) = "EXPIRE"
    /\ \/ /\ pc[w] = "get"
          /\ \E now \in Sample(w) :
               LET r == get(Sh(A(w, 1)), A(w, 1), now) IN
               /\ ShardCall(w, "get", A(w, 1), now, r)
               /\ IF r.ret = nullopt THEN Finish(w, resp_int(0))
                                     ELSE Goto(w, "set_expire", loc[w])
       \/ /\ pc[w] = "set_expire"
          /\ \E now \in Sample(w) :
               LET tp == now + Sec(loc[w].n)
                   r  == set_expire(Sh(A(w, 1)), A(w, 1), tp) IN
               /\ ShardCall(w, "set_expire", A(w, 1), -1, r)
               /\ Finish(w, resp_int(1))

H_TTL(w) ==
    /\ Cmd(w) = "TTL"
    /\ pc[w] = "ttl_ms"
    /\ \E now \in Sample(w) :
         LET r  == ttl_ms(Sh(A(w, 1)), A(w, 1), now)
             ms == r.ret IN
         /\ ShardCall(w, "ttl_ms", A(w, 1), now, r)
         /\ Finish(w, IF ms = -2 THEN resp_int(-2)
                      ELSE IF ms = -1 THEN resp_int(-1)
                      ELSE resp_int((ms + 999) \div 1000))

\* loc.n is ttl_ms (-1: no EX/PX)
H_SET(w) ==
    /\ Cmd(w) = "SET"
    /\ \/ /\ pc[w] = "set"
          /\ \E now \in Sample(w) :
               LET r == set(Sh(A(w, 1)), A(w, 1), A(w, 2), now) IN
               /\ ShardCall(w, "set", A(w, 1), now, r)
               /\ IF loc[w].n >= 0 THEN Goto(w, "set_expire", loc[w])
                                   ELSE Finish(w, resp_simple("OK"))
       \/ /\ pc[w] = "set_expire"
          /\ \E now \in Sample(w) :
               LET tp == now + Ms(loc[w].n)
                   r  == set_expire(Sh(A(w, 1)), A(w, 1), tp) IN
               /\ ShardCall(w, "set_expire", A(w, 1), -1, r)
               /\ Finish(w, resp_simple("OK"))

\* loc.n is ms
H_PEXPIRE(w) ==
    /\ Cmd(w) = "PEXPIRE"
    /\ \/ /\ pc[w] = "get"
          /\ \E now \in Sample(w) :
               LET r == get(Sh(A(w, 1)), A(w, 1), now) IN
               /\ ShardCall(w, "get", A(w, 1), now, r)
               /\ IF r.ret = nullopt THEN Finish(w, resp_int(0))
                                     ELSE Goto(w, "set_expire", loc[w])
       \/ /\ pc[w] = "set_expire"
          /\ \E now \in Sample(w) :
               LET tp == now + Ms(loc[w].n)
                   r  == set_expire(Sh(A(w, 1)), A(w, 1), tp) IN
               /\ ShardCall(w, "set_expire", A(w, 1), -1, r)
               /\ Finish(w, resp_int(1))

H_PERSIST(w) ==
    /\ Cmd(w) = "PERSIST"
    /\ \/ /\ pc[w] = "get"
          /\ \E now \in Sample(w) :
               LET r == get(Sh(A(w, 1)), A(w, 1), now) IN
               /\ ShardCall(w, "get", A(w, 1), now, r)
               /\ IF r.ret = nullopt THEN Finish(w, resp_int(0))
                                     ELSE Goto(w, "clear_expire", loc[w])
       \/ /\ pc[w] = "clear_expire"
          /\ LET r == clear_expire(Sh(A(w, 1)), A(w, 1)) IN
             /\ ShardCall(w, "clear_expire", A(w, 1), -1, r)
             /\ Finish(w, resp_int(1))

\* loc.i is i, loc.n is count, loc.now is now (taken before the loop)
H_EXISTS(w) ==
    /\ Cmd(w) = "EXISTS"
    /\ pc[w] = "type_of"
    /\ \E now \in (IF loc[w].i = 1 THEN Sample(w) ELSE {loc[w].now}) :
         LET key   == A(w, loc[w].i)
             r     == type_of(Sh(key), key, now)
             count == loc[w].n + (IF r.ret # "None" THEN 1 ELSE 0) IN
         /\ ShardCall(w, "type_of", key, now, r)
         /\ IF loc[w].i + 1 < Size(w)
            THEN Goto(w, "type_of", [loc[w] EXCEPT !.i = @ + 1, !.n = count, !.now = now])
            ELSE Finish(w, resp_int(count))

\* loc.i is i, loc.n is added
\* The HSET handler without its WRONGTYPE test.
H_HSET_unchecked(w) ==
    /\ Cmd(w) = "HSET"
    /\ \/ /\ pc[w] = "type_of"
          /\ \E now \in Sample(w) :
               LET r == type_of(Sh(A(w, 1)), A(w, 1), now) IN
               /\ ShardCall(w, "type_of", A(w, 1), now, r)
               /\ Goto(w, "hset", [loc[w] EXCEPT !.i = 2, !.n = 0])
       \/ /\ pc[w] = "hset"
          /\ \E now \in Sample(w) :
               LET i     == loc[w].i
                   r     == hset(Sh(A(w, 1)), A(w, 1), A(w, i), A(w, i + 1), now)
                   added == loc[w].n + r.ret IN
               /\ ShardCall(w, "hset", A(w, 1), now, r)
               /\ IF (i + 2) + 1 < Size(w)
                  THEN Goto(w, "hset", [loc[w] EXCEPT !.i = i + 2, !.n = added])
                  ELSE Finish(w, resp_int(added))

H_HSET(w) ==
    /\ Cmd(w) = "HSET"
    /\ \/ /\ pc[w] = "type_of"
          /\ \E now \in Sample(w) :
               LET r == type_of(Sh(A(w, 1)), A(w, 1), now) IN
               /\ ShardCall(w, "type_of", A(w, 1), now, r)
               /\ IF r.ret = "String" THEN Finish(w, resp_wrongtype)
                  ELSE Goto(w, "hset", [loc[w] EXCEPT !.i = 2, !.n = 0])
       \/ /\ pc[w] = "hset"
          /\ \E now \in Sample(w) :
               LET i     == loc[w].i
                   r     == hset(Sh(A(w, 1)), A(w, 1), A(w, i), A(w, i + 1), now)
                   added == loc[w].n + r.ret IN
               /\ ShardCall(w, "hset", A(w, 1), now, r)
               /\ IF (i + 2) + 1 < Size(w)
                  THEN Goto(w, "hset", [loc[w] EXCEPT !.i = i + 2, !.n = added])
                  ELSE Finish(w, resp_int(added))

H_HGET(w) ==
    /\ Cmd(w) = "HGET"
    /\ \/ /\ pc[w] = "type_of"
          /\ \E now \in Sample(w) :
               LET r == type_of(Sh(A(w, 1)), A(w, 1), now) IN
               /\ ShardCall(w, "type_of", A(w, 1), now, r)
               /\ IF r.ret = "String" THEN Finish(w, resp_wrongtype)
                                      ELSE Goto(w, "hget", loc[w])
       \/ /\ pc[w] = "hget"
          /\ \E now \in Sample(w) :
               LET r == hget(Sh(A(w, 1)), A(w, 1), A(w, 2), now) IN
               /\ ShardCall(w, "hget", A(w, 1), now, r)
               /\ Finish(w, IF r.ret = nullopt THEN resp_nil ELSE resp_bulk(r.ret[1]))

H_HDEL(w) ==
    /\ Cmd(w) = "HDEL"
    /\ \/ /\ pc[w] = "type_of"
          /\ \E now \in Sample(w) :
               LET r == type_of(Sh(A(w, 1)), A(w, 1), now) IN
               /\ ShardCall(w, "type_of", A(w, 1), now, r)
               /\ IF r.ret = "String" THEN Finish(w, resp_wrongtype)
                                      ELSE Goto(w, "hdel", loc[w])
       \/ /\ pc[w] = "hdel"
          /\ \E now \in Sample(w) :
               LET r == hdel(Sh(A(w, 1)), A(w, 1), A(w, 2), now) IN
               /\ ShardCall(w, "hdel", A(w, 1), now, r)
               /\ Finish(w, resp_int(r.ret))

H_HEXISTS(w) ==
    /\ Cmd(w) = "HEXISTS"
    /\ \/ /\ pc[w] = "type_of"
          /\ \E now \in Sample(w) :
               LET r == type_of(Sh(A(w, 1)), A(w, 1), now) IN
               /\ ShardCall(w, "type_of", A(w, 1), now, r)
               /\ IF r.ret = "String" THEN Finish(w, resp_wrongtype)
                                      ELSE Goto(w, "hexists", loc[w])
       \/ /\ pc[w] = "hexists"
          /\ \E now \in Sample(w) :
               LET r == hexists(Sh(A(w, 1)), A(w, 1), A(w, 2), now) IN
               /\ ShardCall(w, "hexists", A(w, 1), now, r)
               /\ Finish(w, resp_int(r.ret))

H_HLEN(w) ==
    /\ Cmd(w) = "HLEN"
    /\ \/ /\ pc[w] = "type_of"
          /\ \E now \in Sample(w) :
               LET r == type_of(Sh(A(w, 1)), A(w, 1), now) IN
               /\ ShardCall(w, "type_of", A(w, 1), now, r)
               /\ IF r.ret = "String" THEN Finish(w, resp_wrongtype)
                                      ELSE Goto(w, "hlen", loc[w])
       \/ /\ pc[w] = "hlen"
          /\ \E now \in Sample(w) :
               LET r == hlen(Sh(A(w, 1)), A(w, 1), now) IN
               /\ ShardCall(w, "hlen", A(w, 1), now, r)
               /\ Finish(w, resp_int(r.ret))

\* The orders in which an unordered_map with the fields of hm can be walked.
Walks(hm) ==
    {s \in [1..Cardinality(DOMAIN hm) -> DOMAIN hm] :
        \A i, j \in DOMAIN s : i # j => s[i] # s[j]}

\* vec of Shard::hgetall for the walk s: [f1, v1, f2, v2, ...]
FlatPairs(hm, s) ==
    [i \in 1..(2 * Len(s)) |->
        IF i % 2 = 1 THEN s[(i + 1) \div 2] ELSE hm[s[i \div 2]]]

H_HGETALL(w) ==
    /\ Cmd(w) = "HGETALL"
    /\ \/ /\ pc[w] = "type_of"
          /\ \E now \in Sample(w) :
               LET r == type_of(Sh(A(w, 1)), A(w, 1), now) IN
               /\ ShardCall(w, "type_of", A(w, 1), now, r)
               /\ IF r.ret = "String" THEN Finish(w, resp_wrongtype)
                                      ELSE Goto(w, "hgetall", loc[w])
       \/ /\ pc[w] = "hgetall"
          /\ \E now \in Sample(w) :
               LET r == hgetall(Sh(A(w, 1)), A(w, 1), now) IN
               /\ ShardCall(w, "hgetall", A(w, 1), now, r)
               /\ \E s \in Walks(r.ret) : Finish(w, resp_array(FlatPairs(r.ret, s)))

H_TYPE(w) ==
    /\ Cmd(w) = "TYPE"
    /\ pc[w] = "type_of"
    /\ \E now \in Sample(w) :
         LET r == type_of(Sh(A(w, 1)), A(w, 1), now) IN
         /\ ShardCall(w, "type_of", A(w, 1), now, r)
         /\ Finish(w, CASE r.ret = "None"   -> resp_bulk("none")
                        [] r.ret = "String" -> resp_bulk("string")
                        [] r.ret = "Hash"   -> resp_bulk("hash"))

\* loc.i is i, loc.now is now (taken before the first loop), loc.out is arr so far
H_MGET(w) ==
    /\ Cmd(w) = "MGET"
    /\ \/ /\ pc[w] = "type_of"
          /\ \E now \in (IF loc[w].i = 1 THEN Sample(w) ELSE {loc[w].now}) :
               LET key == A(w, loc[w].i)
                   r   == type_of(Sh(key), key, now) IN
               /\ ShardCall(w, "type_of", key, now, r)
               /\ IF r.ret = "Hash" THEN Finish(w, resp_wrongtype)
                  ELSE IF loc[w].i + 1 < Size(w)
                  THEN Goto(w, "type_of", [loc[w] EXCEPT !.i = @ + 1, !.now = now])
                  ELSE Goto(w, "get", [loc[w] EXCEPT !.i = 1, !.now = now])
       \/ /\ pc[w] = "get"
          /\ \E now \in Sample(w) :
               LET key == A(w, loc[w].i)
                   r   == get(Sh(key), key, now)
                   arr == Append(loc[w].out,
                                 IF r.ret = nullopt THEN resp_nil ELSE resp_bulk(r.ret[1])) IN
               /\ ShardCall(w, "get", key, now, r)
               /\ IF loc[w].i + 1 < Size(w)
                  THEN Goto(w, "get", [loc[w] EXCEPT !.i = @ + 1, !.out = arr])
                  ELSE Finish(w, << "*", arr >>)

\* loc.i is i, loc.out is arr so far
H_HMGET(w) ==
    /\ Cmd(w) = "HMGET"
    /\ \/ /\ pc[w] = "type_of"
          /\ \E now \in Sample(w) :
               LET r == type_of(Sh(A(w, 1)), A(w, 1), now) IN
               /\ ShardCall(w, "type_of", A(w, 1), now, r)
               /\ IF r.ret = "String" THEN Finish(w, resp_wrongtype)
                  ELSE Goto(w, "hget", [loc[w] EXCEPT !.i = 2])
       \/ /\ pc[w] = "hget"
          /\ \E now \in Sample(w) :
               LET r   == hget(Sh(A(w, 1)), A(w, 1), A(w, loc[w].i), now)
                   arr == Append(loc[w].out,
                                 IF r.ret = nullopt THEN resp_nil ELSE resp_bulk(r.ret[1])) IN
               /\ ShardCall(w, "hget", A(w, 1), now, r)
               /\ IF loc[w].i + 1 < Size(w)
                  THEN Goto(w, "hget", [loc[w] EXCEPT !.i = @ + 1, !.out = arr])
                  ELSE Finish(w, << "*", arr >>)

\* loc.i is i
\* The MSET handler that stores the key where the value belongs.
H_MSET_key_for_value(w) ==
    /\ Cmd(w) = "MSET"
    /\ pc[w] = "set"
    /\ \E now \in Sample(w) :
         LET i == loc[w].i
             r == set(Sh(A(w, i)), A(w, i), A(w, i), now) IN
         /\ ShardCall(w, "set", A(w, i), now, r)
         /\ IF (i + 2) + 1 < Size(w)
            THEN Goto(w, "set", [loc[w] EXCEPT !.i = i + 2])
            ELSE Finish(w, resp_simple("OK"))

H_MSET(w) ==
    /\ Cmd(w) = "MSET"
    /\ pc[w] = "set"
    /\ \E now \in Sample(w) :
         LET i == loc[w].i
             r == set(Sh(A(w, i)), A(w, i), A(w, i + 1), now) IN
         /\ ShardCall(w, "set", A(w, i), now, r)
         /\ IF (i + 2) + 1 < Size(w)
            THEN Goto(w, "set", [loc[w] EXCEPT !.i = i + 2])
            ELSE Finish(w, resp_simple("OK"))

\* ------------------------------------------------------------ Router::dispatch

Ret(rep)      == [pc |-> "idle", reply |-> rep, loc |-> loc0]
To(label, l)  == [pc |-> label, reply |-> << >>, loc |-> l]
Clamp0(n)     == IF n < 0 THEN 0 ELSE n

\* The SET handler up to its first Shard call: arity, EX/PX, the number.
SetEntry(a) ==
    IF Len(a) < 3 THEN Ret(resp_error("wrong #args for 'set'"))
    ELSE IF Len(a) >= 5
    THEN CASE upper(a[4]) = "EX" ->
                IF ~stoll_ok(a[5])
                THEN Ret(resp_error("value is not an integer or out of range"))
                ELSE To("set", [loc0 EXCEPT !.n = Clamp0(stoll(a[5]) * MsPerSec)])
           [] upper(a[4]) = "PX" ->
                IF ~stoll_ok(a[5])
                THEN Ret(resp_error("value is not an integer or out of range"))
                ELSE To("set", [loc0 EXCEPT !.n = Clamp0(stoll(a[5]))])
           [] OTHER -> Ret(resp_error("syntax error"))
    ELSE IF Len(a) # 3 THEN Ret(resp_error("syntax error"))
    ELSE To("set", [loc0 EXCEPT !.n = -1])

\* Router::dispatch and the handler it finds, up to the handler's first Shard call.
Entry(a) ==
    IF Len(a) = 0 THEN Ret(resp_error("empty"))
    ELSE LET cmd == upper(a[1]) n == Len(a) IN
    CASE cmd = "PING" -> Ret(IF n > 1 THEN resp_bulk(a[2]) ELSE resp_simple("PONG"))
      [] cmd = "ECHO" -> IF n < 2 THEN Ret(resp_error("wrong #args for 'echo'"))
                         ELSE Ret(resp_bulk(a[2]))
      [] cmd = "SET" -> SetEntry(a)
      [] cmd = "GET" -> IF n < 2 THEN Ret(resp_error("wrong #args for 'get'"))
                        ELSE To("type_of", loc0)
      [] cmd = "DEL" -> IF n < 2 THEN Ret(resp_error("wrong #args for 'del'"))
                        ELSE To("del", loc0)
      [] cmd = "EXPIRE" ->
            IF n < 3 THEN Ret(resp_error("wrong number of arguments for 'expire'"))
            ELSE IF ~stoll_ok(a[3])
            THEN Ret(resp_error("value is not an integer or out of range"))
            ELSE To("get", [loc0 EXCEPT !.n = Clamp0(stoll(a[3]))])
      [] cmd = "TTL" -> IF n < 2 THEN Ret(resp_error("wrong number of arguments for 'ttl'"))
                        ELSE To("ttl_ms", loc0)
      [] cmd = "PEXPIRE" ->
            IF n < 3 THEN Ret(resp_error("wrong #args for 'pexpire'"))
            ELSE IF ~stoll_ok(a[3])
            THEN Ret(resp_error("value is not an integer or out of range"))
            ELSE To("get", [loc0 EXCEPT !.n = Clamp0(stoll(a[3]))])
      [] cmd = "PERSIST" -> IF n < 2 THEN Ret(resp_error("wrong #args for 'persist'"))
                            ELSE To("get", loc0)
      [] cmd = "EXISTS" -> IF n < 2 THEN Ret(resp_error("wrong #args for 'exists'"))
                           ELSE To("type_of", [loc0 EXCEPT !.i = 1])
      [] cmd = "HSET" -> IF n < 4 \/ (n - 2) % 2 # 0
                         THEN Ret(resp_error("wrong #args for 'hset'"))
                         ELSE To("type_of", loc0)
      [] cmd = "HGET" -> IF n < 3 THEN Ret(resp_error("wrong #args for 'hget'"))
                         ELSE To("type_of", loc0)
      [] cmd = "HDEL" -> IF n < 3 THEN Ret(resp_error("wrong #args for 'hdel'"))
                         ELSE To("type_of", loc0)
      [] cmd = "HEXISTS" -> IF n < 3 THEN Ret(resp_error("wrong #args for 'hexists'"))
                            ELSE To("type_of", loc0)
      [] cmd = "HLEN" -> IF n < 2 THEN Ret(resp_error("wrong #args for 'hlen'"))
                         ELSE To("type_of", loc0)
      [] cmd = "HGETALL" -> IF n < 2 THEN Ret(resp_error("wrong #args for 'hgetall'"))
                            ELSE To("type_of", loc0)
      [] cmd = "TYPE" -> IF n < 2 THEN Ret(resp_error("wrong #args for 'type'"))
                         ELSE To("type_of", loc0)
      [] cmd = "MGET" -> IF n < 2 THEN Ret(resp_error("wrong #args for 'mget'"))
                         ELSE To("type_of", [loc0 EXCEPT !.i = 1])
      [] cmd = "HMGET" -> IF n < 3 THEN Ret(resp_error("wrong #args for 'hmget'"))
                          ELSE To("type_of", loc0)
      [] cmd = "MSET" -> IF n < 3 \/ (n - 1) % 2 # 0
                         THEN Ret(resp_error("wrong #args for 'mset'"))
                         ELSE To("set", [loc0 EXCEPT !.i = 1])
      [] OTHER -> Ret(resp_error("unknown command"))

\* Router::dispatch whose SET handler writes the value before it reads EX/PX.
Dispatch_set_writes_first(w, a, cap) ==
    /\ pc[w] = "idle"
    /\ \A v \in Workers : v < w => pc[v] # "idle"
    /\ issued < cap
    /\ LET e == Entry(a) IN
       /\ pc' = [pc EXCEPT ![w] = e.pc]
       /\ reply' = e.reply
       /\ args' = [args EXCEPT ![w] = IF e.pc = "idle" THEN << >> ELSE a]
       /\ seen' = [seen EXCEPT ![w] = IF e.pc = "idle" THEN 0 ELSE clock]
       /\ loc' = [loc EXCEPT ![w] = e.loc]
    /\ obs' = [op |-> "entry", args |-> a]
    /\ issued' = issued + 1
    /\ shards_' = IF Len(a) >= 3 /\ upper(a[1]) = "SET"
                  THEN [shards_ EXCEPT ![shard_for(a[2])] = set(@, a[2], a[3], clock).sh]
                  ELSE shards_
    /\ UNCHANGED << wrote, clock, sweepI, sweepNow, sweeps >>
    /\ UNCHANGED sessionVars
    /\ UNCHANGED parserVars
    /\ UNCHANGED transportVars
    /\ UNCHANGED lockVars
    /\ UNCHANGED indexVars

\* A pool worker takes a frame a and calls Router::dispatch(a).
Dispatch(w, a, cap) ==
    /\ pc[w] = "idle"
    /\ \A v \in Workers : v < w => pc[v] # "idle"     \* the workers are alike
    /\ issued < cap
    /\ LET e == Entry(a) IN
       /\ pc' = [pc EXCEPT ![w] = e.pc]
       /\ reply' = e.reply
       /\ args' = [args EXCEPT ![w] = IF e.pc = "idle" THEN << >> ELSE a]
       /\ seen' = [seen EXCEPT ![w] = IF e.pc = "idle" THEN 0 ELSE clock]
       /\ loc' = [loc EXCEPT ![w] = e.loc]
    /\ obs' = [op |-> "entry", args |-> a]
    /\ issued' = issued + 1
    /\ UNCHANGED wrote
    /\ UNCHANGED storeVars
    /\ UNCHANGED sessionVars
    /\ UNCHANGED parserVars
    /\ UNCHANGED transportVars
    /\ UNCHANGED lockVars
    /\ UNCHANGED indexVars

\* One handler step of worker w.
Handler(w) ==
    \/ H_GET(w) \/ H_DEL(w) \/ H_EXPIRE(w) \/ H_TTL(w) \/ H_SET(w)
    \/ H_PEXPIRE(w) \/ H_PERSIST(w) \/ H_EXISTS(w)
    \/ H_HSET(w) \/ H_HGET(w) \/ H_HDEL(w) \/ H_HEXISTS(w) \/ H_HLEN(w)
    \/ H_HGETALL(w) \/ H_TYPE(w) \/ H_MGET(w) \/ H_HMGET(w) \/ H_MSET(w)

\* ------------------------------------------------------------ time and the sweeper

\* The clock moves on to a later instant.
Tick ==
    /\ \E t \in Instants : t > clock /\ clock' = t
    /\ UNCHANGED << shards_, sweepI, sweepNow, sweeps >>
    /\ UNCHANGED workerVars
    /\ UNCHANGED sessionVars
    /\ UNCHANGED parserVars
    /\ UNCHANGED transportVars
    /\ UNCHANGED lockVars
    /\ UNCHANGED indexVars

\* Store::sweep_all, first line: the timer fired, the timestamp is taken.
SweepStart ==
    /\ sweepI = NumShards
    /\ sweeps < MaxSweeps
    /\ sweeps' = sweeps + 1
    /\ sweepI' = 0
    /\ sweepNow' = clock
    /\ UNCHANGED << shards_, clock >>
    /\ UNCHANGED workerVars
    /\ UNCHANGED sessionVars
    /\ UNCHANGED parserVars
    /\ UNCHANGED transportVars
    /\ UNCHANGED lockVars
    /\ UNCHANGED indexVars

\* Store::sweep_all that takes a new timestamp for every shard.
SweepShard_fresh_now ==
    /\ sweepI < NumShards
    /\ shards_' = [shards_ EXCEPT ![sweepI] = sweep(@, clock)]
    /\ sweepI' = sweepI + 1
    /\ sweepNow' = IF sweepI' = NumShards THEN 0 ELSE sweepNow
    /\ mu_' = Unlock(sweepI, Sweeper)
    /\ UNCHANGED indexVars
    /\ UNCHANGED << clock, sweeps >>
    /\ UNCHANGED workerVars
    /\ UNCHANGED sessionVars
    /\ UNCHANGED parserVars
    /\ UNCHANGED transportVars

\* Store::sweep_all, one turn of the loop: Shard::sweep(now) on the next shard.
SweepShard ==
    /\ sweepI < NumShards
    /\ shards_' = [shards_ EXCEPT ![sweepI] = sweep(@, sweepNow)]
    /\ sweepI' = sweepI + 1
    /\ sweepNow' = IF sweepI' = NumShards THEN 0 ELSE sweepNow
    /\ mu_' = Unlock(sweepI, Sweeper)
    /\ UNCHANGED indexVars
    /\ UNCHANGED << clock, sweeps >>
    /\ UNCHANGED workerVars
    /\ UNCHANGED sessionVars
    /\ UNCHANGED parserVars
    /\ UNCHANGED transportVars

\* ------------------------------------------------------------ ttl::Index
\* Index::Index: a new Impl, its heap and maps empty and next_gen = 1.
EmptyIndex == [heap |-> {}, gens |-> EmptyMap, expires |-> EmptyMap, next_gen |-> 1]

\* std::string's operator< on the keys of the model.
KeyOrder == << "j", "k" >>
KeyRank(k) == CHOOSE i \in DOMAIN KeyOrder : KeyOrder[i] = k

\* std::greater<HeapNode>: std::tuple's operator< on (when, key, generation).
NodeLess(a, b) ==
    \/ a[1] < b[1]
    \/ a[1] = b[1] /\ KeyRank(a[2]) < KeyRank(b[2])
    \/ a[1] = b[1] /\ a[2] = b[2] /\ a[3] < b[3]

\* std::priority_queue::top: the least node of the heap.
heap_top(heap) == CHOOSE n \in heap : \A m \in heap \ {n} : NodeLess(n, m)

\* pop_due_internal that takes every node for current.
Stale_never(I, n) == FALSE

\* The test of pop_due_internal's first loop: the key has no generation, or
\* another one than the node's.
Stale(I, n) == ~Has(I.gens, n[2]) \/ I.gens[n[2]] # n[3]

\* Index::set(key, when): a fresh generation for the key, its expiry, and a new
\* heap node; the key's older nodes stay in the heap.
Index_set(key, when) ==
    /\ sweeping = nullopt
    /\ calls < MaxIndexCalls
    /\ impl_' = [heap |-> impl_.heap \cup {<< when, key, impl_.next_gen + 1 >>},
                 gens |-> Put(impl_.gens, key, impl_.next_gen + 1),
                 expires |-> Put(impl_.expires, key, when),
                 next_gen |-> impl_.next_gen + 1]
    /\ calls' = calls + 1
    /\ latest' = [latest EXCEPT ![key] = Some(when)]
    /\ told' = told \ {key}
    /\ UNCHANGED << sweeping, out >>
    /\ UNCHANGED << storeVars, workerVars, sessionVars, parserVars, transportVars, lockVars >>

\* Index::clear(key): a fresh generation when the key has one, and no expiry.
Index_clear(key) ==
    /\ sweeping = nullopt
    /\ calls < MaxIndexCalls
    /\ impl_' = IF Has(impl_.gens, key)
                THEN [impl_ EXCEPT !.gens = Put(@, key, impl_.next_gen + 1),
                                   !.next_gen = @ + 1,
                                   !.expires = Erase(@, key)]
                ELSE [impl_ EXCEPT !.expires = Erase(@, key)]
    /\ calls' = calls + 1
    /\ latest' = [latest EXCEPT ![key] = nullopt]
    /\ told' = told \ {key}
    /\ UNCHANGED << sweeping, out >>
    /\ UNCHANGED << storeVars, workerVars, sessionVars, parserVars, transportVars, lockVars >>

\* Index::sweep_due(at, on_expire) is called: its loop starts.
sweep_due(at) ==
    /\ sweeping = nullopt
    /\ calls < MaxIndexCalls
    /\ sweeping' = Some(at)
    /\ calls' = calls + 1
    /\ out' = << >>
    /\ UNCHANGED << impl_, latest, told >>
    /\ UNCHANGED << storeVars, workerVars, sessionVars, parserVars, transportVars, lockVars >>

\* Index::pop_due_internal, one turn of its first loop: the top is stale and is
\* popped.
DropStale ==
    /\ sweeping # nullopt
    /\ impl_.heap # {}
    /\ Stale(impl_, heap_top(impl_.heap))
    /\ impl_' = [impl_ EXCEPT !.heap = @ \ {heap_top(impl_.heap)}]
    /\ UNCHANGED << sweeping, calls, latest, told, out >>
    /\ UNCHANGED << storeVars, workerVars, sessionVars, parserVars, transportVars, lockVars >>

\* Index::pop_due_internal after its first loop, and what sweep_due does with
\* the answer: it returns when nothing is due, calls on_expire(key) when the
\* popped node is valid, and loops again otherwise.
pop_due_internal ==
    /\ sweeping # nullopt
    /\ impl_.heap # {} => ~Stale(impl_, heap_top(impl_.heap))
    /\ IF impl_.heap = {} \/ heap_top(impl_.heap)[1] > sweeping[1]
       THEN /\ sweeping' = nullopt
            /\ UNCHANGED << impl_, told, out >>
       ELSE LET n == heap_top(impl_.heap)
                valid == Has(impl_.expires, n[2]) /\ impl_.expires[n[2]] = n[1]
            IN  /\ impl_' = [impl_ EXCEPT !.heap = @ \ {n}]
                /\ out' = IF valid THEN Append(out, << n[2], n[1] >>) ELSE out
                /\ told' = IF valid THEN told \cup {n[2]} ELSE told
                /\ UNCHANGED sweeping
    /\ UNCHANGED << calls, latest >>
    /\ UNCHANGED << storeVars, workerVars, sessionVars, parserVars, transportVars, lockVars >>

\* ------------------------------------------------------------ specification

\* The frames the clients send.
Frames ==
    { << "SET", "k", "v" >>, << "SET", "k", "w", "PX", "1" >>, << "set", "k", "v", "ex", "1" >>,
      << "GET", "k" >>, << "DEL", "k" >>, << "TTL", "k" >>, << "TYPE", "k" >>,
      << "EXPIRE", "k", "1" >>, << "PEXPIRE", "k", "1" >>, << "PERSIST", "k" >>,
      << "EXISTS", "k", "j" >>, << "MGET", "k", "j" >>, << "MSET", "k", "w", "j", "v" >>,
      << "HSET", "k", "f", "v" >>, << "HSET", "k", "f", "w", "g", "v" >>,
      << "HGET", "k", "f" >>, << "HDEL", "k", "f" >>, << "HEXISTS", "k", "f" >>,
      << "HLEN", "k" >>, << "HGETALL", "k" >>, << "HMGET", "k", "f", "g" >>,
      << "PING" >>, << "GET" >> }

vars == << shards_, clock, sweepI, sweepNow, sweeps, args, pc, loc, reply, wrote, seen, obs,
          issued, sock, pending_, reading, nextId, q_, job, strand_, outq_, wire, inflight,
          framed, stream, fed, res, was, readErr, writeErr, mu_,
          impl_, sweeping, calls, latest, told, out >>

\* Store::Store, Router::Router, ThreadPool::ThreadPool and Session::Session.
Start ==
    /\ shards_ = [s \in ShardIx |-> EmptyShard]
    /\ clock = 0
    /\ sweepI = NumShards
    /\ sweepNow = 0
    /\ sweeps = 0
    /\ args = [w \in Workers |-> << >>]
    /\ pc = [w \in Workers |-> "idle"]
    /\ loc = [w \in Workers |-> loc0]
    /\ reply = << >>
    /\ seen = [w \in Workers |-> 0]
    /\ obs = NoObs
    /\ wrote = [k \in Keys |-> << >>]
    /\ issued = 0
    /\ pending_ = << >>
    /\ reading = FALSE
    /\ nextId = 1
    /\ q_ = << >>
    /\ job = [w \in Workers |-> 0]
    /\ strand_ = << >>
    /\ outq_ = << >>
    /\ wire = << >>
    /\ inflight = << >>
    /\ readErr = FALSE
    /\ writeErr = FALSE
    /\ mu_ = [s \in ShardIx |-> {}]
    /\ impl_ = EmptyIndex
    /\ sweeping = nullopt
    /\ calls = 0
    /\ latest = [k \in Keys |-> nullopt]
    /\ told = {}
    /\ out = << >>

\* No byte of the stream has been read.
Unfed ==
    /\ fed = 0
    /\ res = parse_resp(<< >>)
    /\ was = parse_resp(<< >>)

Silent == framed = nullopt /\ stream = << >> /\ Unfed

Init == Start /\ sock = << >> /\ Silent

Next ==
    \/ \E w \in Workers : \E a \in Frames : Dispatch(w, a, MaxCmds)
    \/ \E w \in Workers : Handler(w)
    \/ Tick
    \/ SweepStart
    \/ SweepShard

Spec == Init /\ [][Next]_vars

\* ------------------------------------------------------------ RaceSpec
\* Longer runs of the commands that write, delete and expire one key.

RaceFrames ==
    { << "SET", "k", "v", "PX", "1" >>, << "SET", "k", "w" >>, << "DEL", "k" >>,
      << "HSET", "k", "f", "v" >>, << "HDEL", "k", "f" >>, << "TTL", "k" >>, << "GET", "k" >> }

RaceNext ==
    \/ \E w \in Workers : \E a \in RaceFrames : Dispatch(w, a, MaxRaceCmds)
    \/ \E w \in Workers :
          H_SET(w) \/ H_DEL(w) \/ H_HSET(w) \/ H_HDEL(w) \/ H_TTL(w) \/ H_GET(w)
    \/ Tick

RaceSpec == Init /\ [][RaceNext]_vars

\* ------------------------------------------------------------ ArgSpec
\* Frames with too few arguments, with arguments std::stoll rejects and with an
\* option that is neither EX nor PX, sent to a store that two writing frames
\* fill.

ArgFrames ==
    { << "SET", "k", "v", "PX", "1" >>, << "HSET", "j", "f", "v" >>,
      << "GET" >>, << "SET", "k" >>, << "MSET", "k", "w", "j" >>, << "HSET", "j", "g" >>,
      << "SET", "k", "w", "EX", "x" >>, << "SET", "k", "w", "PX", "x" >>,
      << "EXPIRE", "k", "x" >>, << "PEXPIRE", "k", "x" >>,
      << "SET", "k", "w", "XX", "1" >>, << "SET", "k", "w", "EX" >> }

ArgNext ==
    \/ \E w \in Workers : \E a \in ArgFrames : Dispatch(w, a, MaxArgCmds)
    \/ \E w \in Workers : H_SET(w) \/ H_HSET(w)
    \/ Tick

ArgSpec == Init /\ [][ArgNext]_vars

\* ------------------------------------------------------------ ExtraSpec
\* Frames with more arguments than their command reads.

ExtraFrames ==
    { << "SET", "k", "v" >>, << "HSET", "j", "f", "v" >>,
      << "SET", "k", "w", "PX", "1", "j" >>, << "GET", "k", "j" >>, << "DEL", "k", "j" >>,
      << "TTL", "k", "j" >>, << "TYPE", "k", "j" >>, << "EXPIRE", "k", "1", "j" >>,
      << "HGET", "j", "f", "g" >> }

ExtraHandler(w) ==
    \/ H_SET(w) \/ H_HSET(w) \/ H_GET(w) \/ H_DEL(w)
    \/ H_TTL(w) \/ H_TYPE(w) \/ H_EXPIRE(w) \/ H_HGET(w)

ExtraNext ==
    \/ \E w \in Workers : \E a \in ExtraFrames : Dispatch(w, a, MaxCmds)
    \/ \E w \in Workers : ExtraHandler(w)
    \/ Tick

ExtraSpec == Init /\ [][ExtraNext]_vars

\* ------------------------------------------------------------ TypeSpec
\* Hash commands on string keys and string commands on hash keys.

TypeFrames ==
    { << "SET", "k", "v" >>, << "set", "k", "v", "ex", "1" >>, << "HSET", "j", "f", "v" >>,
      << "HSET", "k", "f", "w" >>, << "HGET", "k", "f" >>, << "HDEL", "k", "f" >>,
      << "HEXISTS", "k", "f" >>, << "HLEN", "k" >>, << "HMGET", "k", "f", "g" >>,
      << "GET", "j" >>, << "MGET", "k", "j" >> }

TypeHandler(w) ==
    \/ H_SET(w) \/ H_HSET(w) \/ H_HGET(w) \/ H_HDEL(w) \/ H_HEXISTS(w)
    \/ H_HLEN(w) \/ H_HMGET(w) \/ H_GET(w) \/ H_MGET(w)

TypeNext ==
    \/ \E w \in Workers : \E a \in TypeFrames : Dispatch(w, a, MaxTypeCmds)
    \/ \E w \in Workers : TypeHandler(w)
    \/ Tick

TypeSpec == Init /\ [][TypeNext]_vars

\* ------------------------------------------------------------ ExpirySpec
\* A key set with EX 1, over the second that follows.  The clients write in the
\* first instants; when no command is in flight the clock may move on by a
\* second, after which the clients only send TTL.  The sweep timer rearms itself
\* for ever.

ExpiryFrames == { << "set", "k", "v", "ex", "1" >>, << "TTL", "k" >>, << "DEL", "k" >> }

\* A second passes while the pool is idle.
Wait ==
    /\ clock \in Instants
    /\ \A w \in Workers : pc[w] = "idle"
    /\ \E t \in Late : clock' = t
    /\ UNCHANGED << shards_, sweepI, sweepNow, sweeps >>
    /\ UNCHANGED workerVars
    /\ UNCHANGED sessionVars
    /\ UNCHANGED parserVars
    /\ UNCHANGED transportVars
    /\ UNCHANGED lockVars
    /\ UNCHANGED indexVars

\* The clock moves on to a later instant of that second.
LateTick ==
    /\ clock \in Late
    /\ \E t \in Late : t > clock /\ clock' = t
    /\ UNCHANGED << shards_, sweepI, sweepNow, sweeps >>
    /\ UNCHANGED workerVars
    /\ UNCHANGED sessionVars
    /\ UNCHANGED parserVars
    /\ UNCHANGED transportVars
    /\ UNCHANGED lockVars
    /\ UNCHANGED indexVars

\* The sweep timer fires, any number of times: Store::sweep_all takes its
\* timestamp.
TimerFired ==
    /\ sweepI = NumShards
    /\ sweepI' = 0
    /\ sweepNow' = clock
    /\ UNCHANGED << shards_, clock, sweeps >>
    /\ UNCHANGED workerVars
    /\ UNCHANGED sessionVars
    /\ UNCHANGED parserVars
    /\ UNCHANGED transportVars
    /\ UNCHANGED lockVars
    /\ UNCHANGED indexVars

ExpiryHandler(w) == H_SET(w) \/ H_TTL(w) \/ H_DEL(w)

ExpiryNext ==
    \/ \E w \in Workers : \E a \in ExpiryFrames :
          clock \in Instants /\ Dispatch(w, a, MaxExpiryCmds)
    \/ \E w \in Workers :
          clock \in Late /\ Dispatch(w, << "TTL", "k" >>, MaxExpiryCmds)
    \/ \E w \in Workers : ExpiryHandler(w)
    \/ Tick
    \/ Wait
    \/ LateTick
    \/ TimerFired
    \/ SweepShard

\* The pool threads run their jobs, time passes, the timer fires and sweep_all
\* goes through its loop.  (Each of these steps changes the variable its
\* fairness condition is written with.)
ExpirySpec ==
    /\ Init
    /\ [][ExpiryNext]_vars
    /\ \A w \in Workers : WF_pc(ExpiryHandler(w))
    /\ WF_clock(Tick \/ Wait \/ LateTick)
    /\ WF_sweepI(TimerFired)
    /\ WF_sweepI(SweepShard)

\* ------------------------------------------------------------ SweepSpec
\* The sweep timer over keys of both shards, with and without a deadline.

SweepFrames ==
    { << "SET", "k", "v", "PX", "1" >>, << "SET", "j", "w", "PX", "1" >>,
      << "SET", "j", "v" >>, << "HSET", "k", "f", "v" >>, << "EXPIRE", "k", "1" >>,
      << "PEXPIRE", "j", "1" >> }

SweepHandler(w) == H_SET(w) \/ H_HSET(w) \/ H_EXPIRE(w) \/ H_PEXPIRE(w)

SweepNext ==
    \/ \E w \in Workers : \E a \in SweepFrames : Dispatch(w, a, MaxSweepCmds)
    \/ \E w \in Workers : SweepHandler(w)
    \/ Tick
    \/ SweepStart
    \/ SweepShard

SweepSpec == Init /\ [][SweepNext]_vars

\* ------------------------------------------------------------ MsetSpec
\* Two MSET over keys of both shards, read by MGET and GET of other connections.

MsetOld == << "MSET", "k", "v", "j", "v" >>
MsetNew == << "MSET", "k", "w", "j", "w" >>

MsetFrames == { MsetOld, MsetNew, << "MGET", "k", "j" >>, << "GET", "j" >> }

MsetHandler(w) == H_MSET(w) \/ H_MGET(w) \/ H_GET(w)

MsetNext ==
    \/ \E w \in Workers : \E a \in MsetFrames : Dispatch(w, a, MaxMsetCmds)
    \/ \E w \in Workers : MsetHandler(w)

MsetSpec == Init /\ [][MsetNext]_vars

\* ------------------------------------------------------------ LinSpec
\* A two-field HSET and DEL of the same key, from different connections.

HsetTwo == << "HSET", "k", "f", "w", "g", "v" >>

LinFrames == { HsetTwo, << "DEL", "k" >> }

LinNext ==
    \/ \E w \in Workers : \E a \in LinFrames : Dispatch(w, a, MaxLinCmds)
    \/ \E w \in Workers : H_HSET(w) \/ H_DEL(w)

LinSpec == Init /\ [][LinNext]_vars

\* ------------------------------------------------------------ ClampSpec
\* One client: commands with a duration of zero or less, and the commands that
\* observe the key after them.  A frame is dispatched when the reply to the one
\* before it is out.

ClampFrames ==
    { << "SET", "k", "v", "PX", "0" >>, << "SET", "k", "v", "EX", "-1" >>,
      << "HSET", "k", "f", "v" >>,
      << "EXPIRE", "k", "0" >>, << "PEXPIRE", "k", "-1" >>,
      << "GET", "k" >>, << "EXISTS", "k" >>, << "TYPE", "k" >>, << "TTL", "k" >>,
      << "HGET", "k", "f" >> }

ClampHandler(w) ==
    \/ H_SET(w) \/ H_HSET(w) \/ H_EXPIRE(w) \/ H_PEXPIRE(w)
    \/ H_GET(w) \/ H_EXISTS(w) \/ H_TYPE(w) \/ H_TTL(w) \/ H_HGET(w)

ClampNext ==
    \/ \E w \in Workers : \E a \in ClampFrames :
          (\A v \in Workers : pc[v] = "idle") /\ Dispatch(w, a, MaxClampCmds)
    \/ \E w \in Workers : ClampHandler(w)
    \/ Tick

ClampSpec == Init /\ [][ClampNext]_vars

\* ------------------------------------------------------------ LockSpec
\* The pool threads and the sweeper on the locks of the shards: a thread takes
\* mu_ in one step and runs the body of its method, to its return, in a later one.

LockFrames ==
    { << "SET", "k", "v", "PX", "1" >>, << "GET", "k" >>, << "TTL", "k" >>,
      << "HSET", "k", "f", "v" >>, << "HGET", "k", "f" >>, << "HEXISTS", "k", "f" >>,
      << "HLEN", "k" >>, << "HGETALL", "k" >> }

LockHandler(w) ==
    \/ H_SET(w) \/ H_GET(w) \/ H_TTL(w)
    \/ H_HSET(w) \/ H_HGET(w) \/ H_HEXISTS(w) \/ H_HLEN(w) \/ H_HGETALL(w)

Holds(t, s, mode) == << t, mode >> \in mu_[s]

\* The key of the Shard call the handler of worker w makes next: a[i] in the
\* loops of MGET, EXISTS and MSET, a[1] in the other handlers.
NextKey(w) == IF Cmd(w) \in {"MGET", "EXISTS", "MSET"} THEN A(w, loc[w].i) ELSE A(w, 1)

\* The first line of the Shard method worker w calls next: std::unique_lock
\* lk(mu_) or std::shared_lock lk(mu_), on the shard of the call's key.
Acquire(w) ==
    /\ pc[w] # "idle"
    /\ \A h \in mu_[shard_for(NextKey(w))] : h[1] # w
    /\ CanLock(shard_for(NextKey(w)), LockOf(pc[w]))
    /\ mu_' = Lock(shard_for(NextKey(w)), w, LockOf(pc[w]))
    /\ UNCHANGED indexVars
    /\ UNCHANGED storeVars
    /\ UNCHANGED workerVars
    /\ UNCHANGED sessionVars
    /\ UNCHANGED parserVars
    /\ UNCHANGED transportVars

\* The rest of the method, under the lock.
Locked(w) ==
    /\ pc[w] # "idle"
    /\ Holds(w, shard_for(NextKey(w)), LockOf(pc[w]))
    /\ LockHandler(w)

\* Shard::sweep, first line: std::unique_lock lk(mu_).
SweepAcquire ==
    /\ sweepI < NumShards
    /\ ~Holds(Sweeper, sweepI, "unique")
    /\ CanLock(sweepI, "unique")
    /\ mu_' = Lock(sweepI, Sweeper, "unique")
    /\ UNCHANGED indexVars
    /\ UNCHANGED storeVars
    /\ UNCHANGED workerVars
    /\ UNCHANGED sessionVars
    /\ UNCHANGED parserVars
    /\ UNCHANGED transportVars

\* The rest of Shard::sweep, under the lock.
LockedSweep ==
    /\ sweepI < NumShards
    /\ Holds(Sweeper, sweepI, "unique")
    /\ SweepShard

LockNext ==
    \/ \E w \in Workers : \E a \in LockFrames : Dispatch(w, a, MaxLockCmds)
    \/ \E w \in Workers : Acquire(w)
    \/ \E w \in Workers : Locked(w)
    \/ Tick
    \/ SweepStart
    \/ SweepAcquire
    \/ LockedSweep

LockSpec == Init /\ [][LockNext]_vars

\* ------------------------------------------------------------ ExtendSpec
\* A key with a deadline, EXPIRE and PEXPIRE of it from one connection and TTL
\* from another while the deadline passes.

ExtendFrames ==
    { << "SET", "k", "v", "PX", "1" >>, << "PEXPIRE", "k", "1" >>,
      << "EXPIRE", "k", "1" >>, << "TTL", "k" >> }

ExtendHandler(w) == H_SET(w) \/ H_PEXPIRE(w) \/ H_EXPIRE(w) \/ H_TTL(w)

ExtendNext ==
    \/ \E w \in Workers : \E a \in ExtendFrames : Dispatch(w, a, MaxExtendCmds)
    \/ \E w \in Workers : ExtendHandler(w)
    \/ Tick

ExtendSpec == Init /\ [][ExtendNext]_vars

\* ------------------------------------------------------------ OrderSpec
\* Commands over keys of both shards, in either order of the shards, beside
\* the sweeper.

OrderFrames ==
    { << "MSET", "k", "v", "j", "w" >>, << "MSET", "j", "w", "k", "v" >>,
      << "MGET", "k", "j" >>, << "EXISTS", "j", "k" >> }

OrderHandler(w) == H_MSET(w) \/ H_MGET(w) \/ H_EXISTS(w)

\* The rest of the method, under the lock.
OrderLocked(w) ==
    /\ pc[w] # "idle"
    /\ Holds(w, shard_for(NextKey(w)), LockOf(pc[w]))
    /\ OrderHandler(w)

OrderNext ==
    \/ \E w \in Workers : \E a \in OrderFrames : Dispatch(w, a, MaxOrderCmds)
    \/ \E w \in Workers : Acquire(w)
    \/ \E w \in Workers : OrderLocked(w)
    \/ SweepStart
    \/ SweepAcquire
    \/ LockedSweep

OrderSpec == Init /\ [][OrderNext]_vars

\* ------------------------------------------------------------ Session and ThreadPool
\* One connection.  What the client sends is a sequence of inputs, each the bytes
\* of one parse_resp result: "frame" a complete array of bulk strings, "bad" an
\* array header parse_resp rejects after consuming it, "inline" bytes that do not
\* start with '*', which parse_resp rejects with consumed = 0.  One thread runs
\* io.run(): the read callback, the handlers of the strand and the completion of
\* a write never run at the same time.  The pool threads run beside it.

Tokens == {"frame", "bad", "inline"}

RECURSIVE SeqsUpTo(_, _)
SeqsUpTo(S, n) ==
    IF n = 0 THEN { << >> }
    ELSE LET shorter == SeqsUpTo(S, n - 1) IN
         shorter \cup { Append(s, x) : s \in { t \in shorter : Len(t) = n - 1 }, x \in S }

Inputs == SeqsUpTo(Tokens, MaxInput) \ { << >> }

\* The reply to request id: what Router::dispatch returned for it, or "-ERR proto".
Reply(id, kind) == [id |-> id, kind |-> kind]

\* async_read_some completes with n inputs: the callback appends them to pending_.
ReadSome ==
    /\ ~reading
    /\ ~readErr
    /\ \E n \in 1..Len(sock) :
         /\ pending_' = pending_ \o SubSeq(sock, 1, n)
         /\ sock' = SubSeq(sock, n + 1, Len(sock))
    /\ reading' = TRUE
    /\ UNCHANGED << nextId, q_, job, strand_, outq_, wire, inflight >>
    /\ UNCHANGED storeVars
    /\ UNCHANGED workerVars
    /\ UNCHANGED parserVars
    /\ UNCHANGED transportVars
    /\ UNCHANGED lockVars
    /\ UNCHANGED indexVars

\* One turn of the loop of the read callback on parse_resp's result.
ParseStep ==
    /\ reading
    /\ \/ /\ pending_ = << >>                       \* need more: break, do_read()
          /\ reading' = FALSE
          /\ UNCHANGED << pending_, nextId, q_, strand_ >>
       \/ /\ pending_ # << >>
          /\ Head(pending_) = "frame"               \* handle_frame: pool_.enqueue
          /\ pending_' = Tail(pending_)
          /\ q_' = Append(q_, nextId)
          /\ nextId' = nextId + 1
          /\ UNCHANGED << reading, strand_ >>
       \/ /\ pending_ # << >>
          /\ Head(pending_) = "bad"                 \* error, consumed > 0
          /\ pending_' = Tail(pending_)
          /\ strand_' = Append(strand_, Reply(nextId, "proto"))
          /\ nextId' = nextId + 1
          /\ UNCHANGED << reading, q_ >>
       \/ /\ pending_ # << >>
          /\ Head(pending_) = "inline"              \* error, consumed = 0
          /\ Len(strand_) < MaxStrand
          /\ strand_' = Append(strand_, Reply(nextId, "proto"))
          /\ nextId' = nextId + 1
          /\ UNCHANGED << pending_, reading, q_ >>
    /\ UNCHANGED << sock, job, outq_, wire, inflight >>
    /\ UNCHANGED storeVars
    /\ UNCHANGED workerVars
    /\ UNCHANGED parserVars
    /\ UNCHANGED transportVars
    /\ UNCHANGED lockVars
    /\ UNCHANGED indexVars

\* A pool thread takes the job at the front of q_.
Take(w) ==
    /\ job[w] = 0
    /\ q_ # << >>
    /\ job' = [job EXCEPT ![w] = Head(q_)]
    /\ q_' = Tail(q_)
    /\ UNCHANGED << sock, pending_, reading, nextId, strand_, outq_, wire, inflight >>
    /\ UNCHANGED storeVars
    /\ UNCHANGED workerVars
    /\ UNCHANGED parserVars
    /\ UNCHANGED transportVars
    /\ UNCHANGED lockVars
    /\ UNCHANGED indexVars

\* The job of handle_frame: dispatch, then post the reply to the strand.
Run(w) ==
    /\ job[w] # 0
    /\ strand_' = Append(strand_, Reply(job[w], "reply"))
    /\ job' = [job EXCEPT ![w] = 0]
    /\ UNCHANGED << sock, pending_, reading, nextId, q_, outq_, wire, inflight >>
    /\ UNCHANGED storeVars
    /\ UNCHANGED workerVars
    /\ UNCHANGED parserVars
    /\ UNCHANGED transportVars
    /\ UNCHANGED lockVars
    /\ UNCHANGED indexVars

\* Session::enqueue_write that calls do_write() whether or not a write is under way.
enqueue_write_always ==
    /\ ~reading
    /\ strand_ # << >>
    /\ outq_' = Append(outq_, Head(strand_))
    /\ inflight' = Append(inflight, Head(outq_'))
    /\ strand_' = Tail(strand_)
    /\ UNCHANGED << sock, pending_, reading, nextId, q_, job, wire >>
    /\ UNCHANGED storeVars
    /\ UNCHANGED workerVars
    /\ UNCHANGED parserVars
    /\ UNCHANGED transportVars
    /\ UNCHANGED lockVars
    /\ UNCHANGED indexVars

\* The strand runs its oldest handler, Session::enqueue_write: writing is
\* !outq_.empty(), the message goes to the back of outq_, and do_write() starts
\* the async_write of outq_.front() when no write was under way.
enqueue_write ==
    /\ ~reading
    /\ strand_ # << >>
    /\ outq_' = Append(outq_, Head(strand_))
    /\ inflight' = IF outq_ = << >> THEN Append(inflight, Head(outq_')) ELSE inflight
    /\ strand_' = Tail(strand_)
    /\ UNCHANGED << sock, pending_, reading, nextId, q_, job, wire >>
    /\ UNCHANGED storeVars
    /\ UNCHANGED workerVars
    /\ UNCHANGED parserVars
    /\ UNCHANGED transportVars
    /\ UNCHANGED lockVars
    /\ UNCHANGED indexVars

\* The completion handler of do_write without error: the message is on the
\* socket, outq_.pop_front(), and do_write() again when outq_ holds more.
do_write ==
    /\ ~reading
    /\ inflight # << >>
    /\ wire' = Append(wire, Head(inflight))
    /\ outq_' = Tail(outq_)
    /\ inflight' = Tail(inflight) \o (IF outq_' = << >> THEN << >> ELSE << Head(outq_') >>)
    /\ UNCHANGED << sock, pending_, reading, nextId, q_, job, strand_ >>
    /\ UNCHANGED storeVars
    /\ UNCHANGED workerVars
    /\ UNCHANGED parserVars
    /\ UNCHANGED transportVars
    /\ UNCHANGED lockVars
    /\ UNCHANGED indexVars

SessionInit == Start /\ sock \in Inputs /\ Silent

SessionNext ==
    \/ ReadSome
    \/ ParseStep
    \/ \E w \in Workers : Take(w)
    \/ \E w \in Workers : Run(w)
    \/ enqueue_write
    \/ do_write

SessionSpec == SessionInit /\ [][SessionNext]_vars

\* The pool threads and the thread of io.run() are scheduled fairly.
SessionFairSpec ==
    /\ SessionInit
    /\ [][SessionNext]_vars
    /\ WF_vars(ReadSome)
    /\ WF_vars(ParseStep)
    /\ \A w \in Workers : WF_vars(Take(w))
    /\ \A w \in Workers : WF_vars(Run(w))
    /\ WF_vars(enqueue_write)
    /\ WF_vars(do_write)

\* ------------------------------------------------------------ SingleSpec
\* The pool of a machine with one or two hardware threads, and a client that
\* sends well-formed frames only.

\* std::thread::hardware_concurrency() is 3.
PoolOfOne_two == 1..2

\* ThreadPool pool(std::max(1u, hc > 1 ? hc - 1 : 1)) with hc at most 2.
PoolOfOne == 1..1

SingleInit == Start /\ sock \in SeqsUpTo({"frame"}, MaxInput) \ { << >> } /\ Silent

SingleNext ==
    \/ ReadSome
    \/ ParseStep
    \/ \E w \in PoolOfOne : Take(w)
    \/ \E w \in PoolOfOne : Run(w)
    \/ enqueue_write
    \/ do_write

SingleSpec == SingleInit /\ [][SingleNext]_vars

\* ------------------------------------------------------------ TransportSpec
\* The connection with transport errors: the peer closes or resets it.

\* async_read_some completes with ec set: the callback returns at once, what
\* the peer had sent and the server had not read is lost.
ReadFail ==
    /\ ~reading
    /\ ~readErr
    /\ readErr' = TRUE
    /\ sock' = << >>
    /\ UNCHANGED << pending_, reading, nextId, q_, job, strand_, outq_, wire, inflight, writeErr >>
    /\ UNCHANGED lockVars
    /\ UNCHANGED indexVars
    /\ UNCHANGED storeVars
    /\ UNCHANGED workerVars
    /\ UNCHANGED parserVars

\* async_write completes with ec set: the handler returns at once, outq_
\* keeps its front.
WriteFail ==
    /\ ~reading
    /\ inflight # << >>
    /\ writeErr' = TRUE
    /\ inflight' = Tail(inflight)
    /\ UNCHANGED << sock, pending_, reading, nextId, q_, job, strand_, outq_, wire, readErr >>
    /\ UNCHANGED lockVars
    /\ UNCHANGED indexVars
    /\ UNCHANGED storeVars
    /\ UNCHANGED workerVars
    /\ UNCHANGED parserVars

TransportNext ==
    \/ SessionNext
    \/ ReadFail
    \/ WriteFail

TransportSpec == SessionInit /\ [][TransportNext]_vars

\* ------------------------------------------------------------ ParseSpec
\* parse_resp over the growing pending_ of one connection: the client sends
\* one frame followed by other bytes, or a stream that is no frame, and
\* async_read_some delivers it in chunks of any size.

MaxArgs == 2

ArgStrings ==
    { << >>, << "a" >>, << CR >>, << LF >>, << "$" >>, << "*" >>, CRLF,
      << "*", "0", CR, LF >> }

\* The argument lists the client sends: the short ones, ten empty
\* arguments, and one argument of ten bytes.
Lists ==
    SeqsUpTo(ArgStrings, MaxArgs)
        \cup { [i \in 1..10 |-> << >>], << [i \in 1..10 |-> "a"] >> }

Rests == { << >>, << "a" >>, << "*" >>, << "$" >>, CRLF, << "*", "0", CR, LF >> }

MinDigits == << "2", "1", "4", "7", "4", "8", "3", "6", "4", "8" >>

LengthTokens ==
    { << >>, << "-" >>, << "+", "1" >>, << " ", "1" >>, << "1", " " >>, << "a" >>,
      << "1", "a" >>, << "-", "1" >>, << "-", "2" >>, << "-", "0" >>, << "0" >>,
      << "1" >>, << "0", "1" >>, << "2" >>, Decimal(LLongMax), MinDigits,
      << "-" >> \o MinDigits, [i \in 1..11 |-> "9"] }

\* Streams that are not one frame of the emitter: every length token in an
\* array header and in a bulk header, an inline command, a missing '$', a
\* bulk string longer than its length, and a null bulk string.
Others ==
    { << "*" >> \o t \o CRLF \o << "$", "1", CR, LF, "a", CR, LF >> : t \in LengthTokens }
        \cup { << "*", "1", CR, LF, "$" >> \o t \o CRLF \o << "a", CR, LF >> :
                 t \in LengthTokens }
        \cup { << "a", CR, LF >>,
               << "*", "1", CR, LF, "a" >>,
               << "*", "1", CR, LF, "$", "1", CR, LF, "a", "a", CR, LF >>,
               << "*", "1", CR, LF, "$", "-", "1", CR, LF >> }

\* The bytes pending_ holds.
Received == SubSeq(stream, 1, fed)

\* The read callback appends a chunk to pending_ and calls parse_resp.
Feed ==
    /\ \E m \in (fed + 1) .. Len(stream) :
          /\ fed' = m
          /\ res' = parse_resp(SubSeq(stream, 1, m))
    /\ was' = res
    /\ UNCHANGED << framed, stream >>
    /\ UNCHANGED storeVars
    /\ UNCHANGED workerVars
    /\ UNCHANGED sessionVars
    /\ UNCHANGED transportVars
    /\ UNCHANGED lockVars
    /\ UNCHANGED indexVars

ParseInit ==
    /\ Start
    /\ sock = << >>
    /\ Unfed
    /\ \/ \E X \in Lists : \E rest \in Rests :
             /\ framed = Some(X)
             /\ stream = resp_array_bytes(X) \o rest
       \/ /\ framed = nullopt
          /\ stream \in Others

ParseNext == Feed

ParseSpec == ParseInit /\ [][ParseNext]_vars

\* ------------------------------------------------------------ StreamSpec
\* The read callback over bytes: the client sends well-formed frames one after
\* the other, the socket delivers them in reads of any sizes, and q_ holds the
\* arguments of the frames handed to the pool.

StreamArgs == { << >>, << "a" >>, CRLF, << "*", "0", CR, LF >> }

\* The bytes of the frames, one after the other.
RECURSIVE Pipelined(_)
Pipelined(Xs) ==
    IF Xs = << >> THEN << >> ELSE resp_array_bytes(Head(Xs)) \o Pipelined(Tail(Xs))

\* async_read_some completes with the next n bytes: pending_.append.
ReadBytes ==
    /\ ~reading
    /\ \E m \in (fed + 1) .. Len(stream) :
          /\ fed' = m
          /\ pending_' = pending_ \o SubSeq(stream, fed + 1, m)
    /\ reading' = TRUE
    /\ UNCHANGED << framed, stream, res, was >>
    /\ UNCHANGED << sock, nextId, q_, job, strand_, outq_, wire, inflight >>
    /\ UNCHANGED storeVars
    /\ UNCHANGED workerVars
    /\ UNCHANGED transportVars
    /\ UNCHANGED lockVars
    /\ UNCHANGED indexVars

\* The read callback that leaves its loop after the first frame.
Loop_one_frame ==
    /\ reading
    /\ LET r == parse_resp(pending_) IN
       /\ r.thrown = ""
       /\ res' = r
       /\ \/ /\ r.arr = nullopt /\ r.error = ""
             /\ reading' = FALSE
             /\ UNCHANGED << pending_, q_, strand_, nextId >>
          \/ /\ r.error # ""
             /\ strand_' = Append(strand_, Reply(nextId, "proto"))
             /\ nextId' = nextId + 1
             /\ pending_' = Slice(pending_, r.consumed, Len(pending_))
             /\ UNCHANGED << reading, q_ >>
          \/ /\ r.arr # nullopt
             /\ pending_' = Slice(pending_, r.consumed, Len(pending_))
             /\ q_' = Append(q_, r.arr[1])
             /\ reading' = FALSE
             /\ UNCHANGED << strand_, nextId >>
    /\ was' = res
    /\ UNCHANGED << framed, stream, fed >>
    /\ UNCHANGED << sock, job, outq_, wire, inflight >>
    /\ UNCHANGED storeVars
    /\ UNCHANGED workerVars
    /\ UNCHANGED transportVars
    /\ UNCHANGED lockVars
    /\ UNCHANGED indexVars

\* One turn of for (;;) in the read callback: parse_resp on pending_, then
\* break and do_read(), or "-ERR proto" and erase, or erase and handle_frame.
Loop ==
    /\ reading
    /\ LET r == parse_resp(pending_) IN
       /\ r.thrown = ""
       /\ res' = r
       /\ \/ /\ r.arr = nullopt /\ r.error = ""
             /\ reading' = FALSE
             /\ UNCHANGED << pending_, q_, strand_, nextId >>
          \/ /\ r.error # ""
             /\ strand_' = Append(strand_, Reply(nextId, "proto"))
             /\ nextId' = nextId + 1
             /\ pending_' = Slice(pending_, r.consumed, Len(pending_))
             /\ UNCHANGED << reading, q_ >>
          \/ /\ r.arr # nullopt
             /\ pending_' = Slice(pending_, r.consumed, Len(pending_))
             /\ q_' = Append(q_, r.arr[1])
             /\ UNCHANGED << reading, strand_, nextId >>
    /\ was' = res
    /\ UNCHANGED << framed, stream, fed >>
    /\ UNCHANGED << sock, job, outq_, wire, inflight >>
    /\ UNCHANGED storeVars
    /\ UNCHANGED workerVars
    /\ UNCHANGED transportVars
    /\ UNCHANGED lockVars
    /\ UNCHANGED indexVars

StreamInit ==
    /\ Start
    /\ sock = << >>
    /\ Unfed
    /\ \E Xs \in SeqsUpTo(SeqsUpTo(StreamArgs, MaxArgs), MaxFrames) :
          /\ framed = Some(Xs)
          /\ stream = Pipelined(Xs)

StreamNext == ReadBytes \/ Loop

StreamSpec == StreamInit /\ [][StreamNext]_vars

\* ------------------------------------------------------------ IndexSpec
\* One expiry index and its owner, which calls set, clear and sweep_due one
\* after the other; a call of sweep_due runs until it returns.

Whens == 1..MaxWhen

IndexNext ==
    \/ \E key \in Keys : \E when \in Whens : Index_set(key, when)
    \/ \E key \in Keys : Index_clear(key)
    \/ \E at \in Whens : sweep_due(at)
    \/ DropStale
    \/ pop_due_internal

IndexSpec == Init /\ [][IndexNext]_vars /\ WF_vars(DropStale \/ pop_due_internal)

\* ------------------------------------------------------------ properties

\* The latest step was a Shard call of a handler.
Called == obs.op \notin {"none", "entry"}

\* What the latest Shard call returned.
ObsRet == obs.ret[2]

\* The command of the frame the latest step served.
ObsCmd == upper(obs.args[1])

\* The deadline the key had before the call had passed at instant t.
PastAt(t) == obs.dl # -1 /\ obs.dl <= t

\* C1: on a connection the replies reach the socket in the order in which their
\* requests were parsed from it (a malformed input answered "-ERR proto" is a
\* request), however many pool threads there are and whichever finishes first.
C1_RepliesInRequestOrder ==
    \A i, j \in DOMAIN wire : i < j => wire[i].id < wire[j].id

\* C2: in every reachable state of every shard no key is in both the string map
\* and the hash map.
C2_StringOrHashNotBoth ==
    \A s \in ShardIx : \A k \in Keys :
        ~(Has(shards_[s].map_, k) /\ Has(shards_[s].hmap_, k))

\* C3: every key with an expiry record is in the string map or the hash map: a
\* key that leaves the keyspace takes its expiry record with it.
C3_ExpiryOnlyOfPresentKey ==
    \A s \in ShardIx : \A k \in Keys :
        Has(shards_[s].ttl_, k) => Has(shards_[s].map_, k) \/ Has(shards_[s].hmap_, k)

\* The frame is SET key value without EX or PX.
PlainSet(a) == Len(a) = 3 /\ upper(a[1]) = "SET"

\* C4: as long as the latest write or delete of k is a SET k v without EX/PX,
\* ttl_ms of k is -1 and get of k is v, whatever expiry k carried before.
C4_PlainSetLeavesNoExpiry ==
    \A k \in Keys :
        PlainSet(wrote[k]) =>
            /\ ttl_ms(Sh(k), k, clock).ret = -1
            /\ get(Sh(k), k, clock).ret = Some(wrote[k][3])

\* The Shard call returned a value or fields of the key to a reading command.
CarriesValue ==
    /\ ObsCmd \in {"GET", "MGET", "HGET", "HMGET", "HGETALL", "HLEN", "HEXISTS"}
    /\ CASE obs.op \in {"get", "hget"} -> ObsRet # nullopt
         [] obs.op = "hlen"            -> ObsRet > 0
         [] obs.op = "hexists"         -> ObsRet = 1
         [] obs.op = "hgetall"         -> ObsRet # EmptyMap
         [] OTHER                      -> FALSE

\* C5: a Shard call that returns a value or fields of a key to GET, MGET, HGET,
\* HMGET, HGETALL, HLEN or HEXISTS reads a key whose deadline is later than the
\* moment of the read under the lock, also when the call waited for the lock
\* after it sampled the clock.
C5_NoValuePastDeadline ==
    Called /\ CarriesValue /\ obs.dl # -1 => obs.dl > obs.clk

\* The reply of the command when its key is absent.
AbsentReply ==
    CASE ObsCmd = "GET"  -> resp_nil
      [] ObsCmd = "TYPE" -> resp_bulk("none")
      [] ObsCmd = "TTL"  -> resp_int(-2)
      [] ObsCmd \in {"EXPIRE", "PEXPIRE", "PERSIST", "DEL"} -> resp_int(0)

\* The instant the Shard call decides by: its timestamp, or the clock when it
\* takes none.
ObsTime == IF obs.ts = -1 THEN obs.clk ELSE obs.ts

\* C6: a command that finds its key present with a deadline that has passed
\* replies as it does when the key is absent: GET nil, TYPE none, TTL -2,
\* EXPIRE, PEXPIRE, PERSIST and DEL :0.
C6_ExpiredRepliesAsAbsent ==
    /\ Called
    /\ reply # << >>
    /\ ObsCmd \in {"GET", "TYPE", "TTL", "EXPIRE", "PEXPIRE", "PERSIST", "DEL"}
    /\ obs.had # "none"
    /\ PastAt(ObsTime)
    => reply = AbsentReply

\* C7: a Shard operation that observes a key whose deadline is at or before its
\* timestamp leaves the key in none of the three maps when it returns (set and
\* hset leave only the value they write, without the old deadline).
C7_ObservedExpiredIsEvicted ==
    /\ Called
    /\ obs.op \in {"get", "type_of", "ttl_ms", "hget", "hexists", "hlen", "hgetall",
                   "hset", "hdel", "set"}
    /\ PastAt(obs.ts)
    => CASE obs.op = "set"  -> obs.left = "string" /\ obs.dlleft = -1
         [] obs.op = "hset" -> obs.left = "hash" /\ obs.dlleft = -1
         [] OTHER           -> obs.gone

\* C8: for every key k and instant t, if ttl_ms(k, t) is -2 then at t get(k) is
\* absent, type_of(k, t) is None and hget(k, f) is absent for every field f,
\* also when less than a millisecond remains to the deadline.
C8_NoTtlMeansAbsent ==
    \A k \in Keys : \A t \in Instants :
        (t <= clock /\ ttl_ms(Sh(k), k, t).ret = -2) =>
            /\ get(Sh(k), k, t).ret = nullopt
            /\ type_of(Sh(k), k, t).ret = "None"
            /\ \A f \in Fields : hget(Sh(k), k, f, t).ret = nullopt

\* C9: EXPIRE, PEXPIRE and PERSIST reply :1 for a key that holds an unexpired
\* string or an unexpired hash.
C9_ExpireSeesStringsAndHashes ==
    /\ Called
    /\ reply # << >>
    /\ ObsCmd \in {"EXPIRE", "PEXPIRE", "PERSIST"}
    /\ obs.had \in {"string", "hash"}
    /\ ~PastAt(obs.clk)
    => reply = resp_int(1)

\* C10: ttl_ms(k, now) is -2 exactly when k is in neither the string map nor the
\* hash map, -1 when k is present without expiry record, 0 when k is present and
\* its deadline is at or before now, and else the positive number of
\* milliseconds that remain.
C10_TtlMsResult ==
    Called /\ obs.op = "ttl_ms" =>
        /\ (ObsRet = -2) <=> (obs.had = "none")
        /\ (obs.had # "none" /\ obs.dl = -1) => ObsRet = -1
        /\ (obs.had # "none" /\ PastAt(obs.ts)) => ObsRet = 0
        /\ (obs.had # "none" /\ obs.dl > obs.ts) =>
               ObsRet > 0 /\ Ms(ObsRet) <= obs.dl - obs.ts

\* The seconds that ms whole milliseconds are, rounded up.
CeilSec(ms) == (ms + MsPerSec - 1) \div MsPerSec

\* C11: TTL replies :-2 when the key is absent or its deadline is at or before
\* now, :-1 when the key is present without expiry, and else the remaining
\* whole milliseconds in seconds rounded up, which is at least 1; it never
\* replies :0.
C11_TtlReply ==
    Called /\ ObsCmd = "TTL" /\ reply # << >> =>
        /\ (obs.had = "none" \/ PastAt(obs.ts)) => reply = resp_int(-2)
        /\ (obs.had # "none" /\ obs.dl = -1) => reply = resp_int(-1)
        /\ (obs.had # "none" /\ obs.dl > obs.ts) =>
               reply = resp_int(CeilSec(duration_cast_ms(obs.dl - obs.ts))) /\ reply[2] >= 1
        /\ reply # resp_int(0)

\* The error replies for a wrong number of arguments, for a number std::stoll
\* rejects and for an option that is neither EX nor PX.
ArgErrors ==
    { resp_error(m) : m \in
        { "wrong #args for 'echo'", "wrong #args for 'set'", "wrong #args for 'get'",
          "wrong #args for 'del'", "wrong number of arguments for 'expire'",
          "wrong number of arguments for 'ttl'", "wrong #args for 'pexpire'",
          "wrong #args for 'persist'", "wrong #args for 'exists'",
          "wrong #args for 'hset'", "wrong #args for 'hget'", "wrong #args for 'hdel'",
          "wrong #args for 'hexists'", "wrong #args for 'hlen'",
          "wrong #args for 'hgetall'", "wrong #args for 'type'", "wrong #args for 'mget'",
          "wrong #args for 'hmget'", "wrong #args for 'mset'",
          "value is not an integer or out of range", "syntax error" } }

\* C13: a command that replies with an arity error, an integer-parse error or
\* 'syntax error' leaves the three maps of every shard as they were: nothing
\* written, no expiry changed, no key evicted.
C13_ArgErrorChangesNothing ==
    [][(issued' # issued /\ reply' \in ArgErrors) => shards_' = shards_]_vars

\* An integer-parse error was replied while k was held past its deadline, not
\* yet evicted.
C13_ErrorOverExpiredKey ==
    /\ obs.op = "entry"
    /\ reply = resp_error("value is not an integer or out of range")
    /\ Has(Sh("k").map_, "k")
    /\ is_expired_unlocked(Sh("k"), "k", clock)

\* The number of arguments of the frame is outside the arity of its command:
\* SET takes 3 or 5, GET, DEL, TTL and TYPE take 2, EXPIRE and HGET take 3.
OutsideArity(a) ==
    LET cmd == upper(a[1]) n == Len(a) IN
    CASE cmd = "SET"                            -> n \notin {3, 5}
      [] cmd \in {"GET", "DEL", "TTL", "TYPE"}  -> n # 2
      [] cmd \in {"EXPIRE", "HGET"}             -> n # 3
      [] OTHER                                  -> FALSE

\* C14: a command whose argument count is outside the arity listed for it is
\* rejected with an error reply and changes no state.
C14_OutsideArityRejected ==
    (obs.op # "none" /\ OutsideArity(obs.args) /\ reply # << >>) =>
        /\ reply[1] = "-ERR"
        /\ obs.op = "entry"          \* replied before any Shard call

\* Worker w makes the type_of call of its handler in this step.
TypeChecked(w) ==
    pc[w] = "type_of" /\ (pc'[w] # "type_of" \/ loc'[w] # loc[w])

\* The latest step was the type_of call of a hash command on a key holding an
\* unexpired string, or of GET or MGET on a key holding an unexpired hash.
WrongKind ==
    /\ Called /\ obs.op = "type_of"
    /\ ~PastAt(obs.clk)
    /\ \/ /\ ObsCmd \in {"HSET", "HGET", "HDEL", "HEXISTS", "HLEN", "HMGET"}
          /\ obs.had = "string"
       \/ /\ ObsCmd \in {"GET", "MGET"}
          /\ obs.had = "hash"

ProtoErrorStep ==
    /\ Len(strand_') = Len(strand_) + 1
    /\ strand_'[Len(strand_')].kind = "proto"

\* C16: on every protocol error the parse loop drops a positive number of
\* bytes from the head of pending_ (so it enqueues finitely many "-ERR proto"
\* for a finite buffer, ends and rearms the read), also for input that does
\* not start with '*'.
C16_ProtoErrorConsumes ==
    [][ProtoErrorStep => Len(pending_') < Len(pending_)]_vars

\* SET k v EX 1 has returned and is the latest write or delete of k.
ExFrame == << "set", "k", "v", "ex", "1" >>
SetExDone == wrote["k"] = ExFrame /\ \A w \in Workers : args[w] # ExFrame

\* No map of k's shard holds k.
InNoMap == ~Present(Sh("k"), "k")

\* A TTL k that took its timestamp no earlier than the SET took the one it
\* computed the deadline from has returned.
TtlAfterSetEx ==
    /\ Called /\ obs.op = "ttl_ms" /\ obs.key = "k" /\ reply # << >>
    /\ SetExDone
    /\ obs.dl # -1 => obs.ts >= obs.dl - Sec(1)

\* After SET k v EX 1 and no later write of k, a TTL k replies 1 or -2, and -2
\* from the deadline on.
TtlWithinExpiry ==
    TtlAfterSetEx =>
        /\ reply \in {resp_int(1), resp_int(-2)}
        /\ (obs.dl = -1 \/ obs.ts >= obs.dl) => reply = resp_int(-2)

\* C12: after SET k v EX n (n = 1) and no later write of k, every reply of a
\* TTL k issued after it is in [1, n] or -2, and -2 once the deadline has
\* passed; and with time passing and the sweep timer firing, k comes to be in
\* none of the three maps of its shard, also when no client reads it.
C12_ExpiresWithinTtl ==
    /\ []TtlWithinExpiry
    /\ (SetExDone ~> (InNoMap \/ ~SetExDone))

\* The sweeper alone removed k after SET k v EX 1: no Shard call followed the
\* SET's set_expire, a second has passed and k is in no map.
C12_SweptUnread ==
    /\ SetExDone
    /\ obs.op = "set_expire" /\ obs.left = "string" /\ obs.dlleft # -1
    /\ clock \in Late
    /\ InNoMap

\* The frame the client sends, as the arguments and as the bytes.
SentArgs == framed[1]
SentFrame == resp_array_bytes(SentArgs)

\* C17: while pending_ holds a strict prefix of a well-formed frame parse_resp
\* reports need-more (no frame, no error, consumed 0); once it holds the
\* frame, whatever follows it, parse_resp returns the frame's arguments and
\* consumed = the length of the frame.
C17_PrefixNeedsMoreThenFrame ==
    framed # nullopt =>
        /\ fed < Len(SentFrame) => res = NeedMore
        /\ fed >= Len(SentFrame) => res = Frame(SentArgs, Len(SentFrame))

\* A frame with arguments was parsed after a prefix of it, with bytes of the
\* next request behind it.
C17_FrameBeforeRest ==
    /\ framed # nullopt
    /\ SentArgs # << >>
    /\ fed > Len(SentFrame)
    /\ was = NeedMore
    /\ res.arr = framed

\* C18: parse_resp of the bytes resp_array(X, true) emits returns the
\* arguments X and consumed = the number of bytes emitted, also for empty
\* arguments and arguments that hold CR, LF, '$' or '*'.
C18_RoundTrip ==
    (framed # nullopt /\ Received = SentFrame) =>
        /\ res.arr = Some(SentArgs)
        /\ res.error = ""
        /\ res.consumed = Len(SentFrame)

\* The round trip of an empty argument and an argument that is CR LF.
C18_CrLfArgumentBack ==
    /\ framed = Some(<< << >>, CRLF >>)
    /\ Received = SentFrame
    /\ res.arr = framed

\* C19: after parse_resp reported need-more, its result for the longer buffer
\* is need-more again or a frame whose consumed is at most the buffer's length.
C19_NeedMoreThenNeedMoreOrFrame ==
    was = NeedMore =>
        \/ res = NeedMore
        \/ res.arr # nullopt /\ res.error = "" /\ res.thrown = "" /\ res.consumed <= fed

\* A token without its leading zeros (empty for zero).
RECURSIVE Significant(_)
Significant(s) ==
    IF s # << >> /\ Head(s) = "0" THEN Significant(Tail(s)) ELSE s

\* s <= t for digit strings of one length.
RECURSIVE DigitsLeq(_, _)
DigitsLeq(s, t) ==
    \/ s = << >>
    \/ DigitVal(Head(s)) < DigitVal(Head(t))
    \/ Head(s) = Head(t) /\ DigitsLeq(Tail(s), Tail(t))

Minus(tok) == tok # << >> /\ tok[1] = "-"
Digits(tok) == IF Minus(tok) THEN Tail(tok) ELSE tok

\* An optional '-' and at least one decimal digit, of a value long long holds.
IsLength(tok) ==
    /\ Digits(tok) # << >>
    /\ \A i \in 1..Len(Digits(tok)) : IsDigit(Digits(tok)[i])
    /\ LET s == Significant(Digits(tok))
           top == Decimal(LLongMax)
       IN \/ Len(s) < Len(top)
          \/ Len(s) = Len(top) /\ DigitsLeq(s, top)
          \/ Minus(tok) /\ s = MinDigits

IsNegative(tok) == Minus(tok) /\ Significant(Digits(tok)) # << >>
BelowMinusOne(tok) == IsNegative(tok) /\ Significant(Digits(tok)) # << "1" >>

\* pending_ holds the whole array header, and the whole header of the first
\* bulk string of an array of one.
ArrayHeader == get_line(Received, 1)
ArrayToken == Slice(Received, 1, ArrayHeader.end)
InArray == fed > 0 /\ Received[1] = "*" /\ ArrayHeader.ok
BulkHeader == get_line(Received, 5)
BulkToken == Slice(Received, 5, BulkHeader.end)
InBulk ==
    /\ fed > 5
    /\ SubSeq(Received, 1, 5) = << "*", "1", CR, LF, "$" >>
    /\ BulkHeader.ok

\* C20: a length token that is not an optional '-' and at least one digit of
\* a value that fits, a negative array length and a bulk length below -1 are
\* protocol errors.
C20_BadLengthIsError ==
    /\ (InArray /\ (~IsLength(ArrayToken) \/ IsNegative(ArrayToken))) => res.error # ""
    /\ (InBulk /\ (~IsLength(BulkToken) \/ BelowMinusOne(BulkToken))) => res.error # ""

\* The frames parsed so far are the requests whose job is or was in the pool.
Ids == 1 .. (MaxInput + MaxStrand)
Written(id) == \E j \in DOMAIN wire : wire[j] = Reply(id, "reply")
Parsed(id) == \E j \in DOMAIN q_ : q_[j] = id

\* C21: without transport errors and under fair scheduling every frame parsed
\* from the connection gets its reply written to the socket, and no reply is
\* written twice.
C21_EveryFrameAnsweredOnce ==
    /\ [](\A i, j \in DOMAIN wire : wire[i] = wire[j] => i = j)
    /\ \A id \in Ids : Parsed(id) ~> Written(id)

\* C22: once a read has failed no reply reaches the socket any more.
C22_NoWriteAfterReadError ==
    [][readErr => wire' = wire]_vars

\* C23: once a write has failed nothing more is read from the connection and
\* no further frame of it is handed to the pool.
C23_NoReadAfterWriteError ==
    [][writeErr => (sock' = sock /\ Len(q_') <= Len(q_))]_vars

\* What a shard holds for a key: its string, its hash and its deadline.
KeyState(sh, k) ==
    << IF Has(sh.map_, k) THEN << sh.map_[k] >> ELSE << >>,
       IF Has(sh.hmap_, k) THEN << sh.hmap_[k] >> ELSE << >>,
       IF Has(sh.ttl_, k) THEN << sh.ttl_[k] >> ELSE << >> >>

\* This step is one Shard::sweep of sweep_all.
SweepStep == sweepI < NumShards /\ sweepI' = sweepI + 1

\* C24: a sweep removes from the three maps of its shard exactly the keys
\* with a deadline at or before the timestamp and leaves every other key's
\* value and deadline, and the other shards, as they were; all shards of one
\* sweep_all are swept with the same timestamp.
C24_SweepRemovesExactlyExpired ==
    [][SweepStep =>
          /\ \A s \in ShardIx \ {sweepI} : shards_'[s] = shards_[s]
          /\ \A k \in Keys :
                IF Has(shards_[sweepI].ttl_, k) /\ shards_[sweepI].ttl_[k] <= sweepNow
                THEN ~Present(shards_'[sweepI], k)
                ELSE KeyState(shards_'[sweepI], k) = KeyState(shards_[sweepI], k)
          /\ sweepI' < NumShards => sweepNow' = sweepNow]_vars

\* sweep_all has removed k, which nothing else can have removed, and left j
\* with its value and its later deadline.
C24_SweptOneLeftOne ==
    /\ sweeps = 1
    /\ sweepI = NumShards
    /\ \A w \in Workers : pc[w] = "idle"
    /\ wrote["k"] = << "SET", "k", "v", "PX", "1" >>
    /\ ~Present(Sh("k"), "k")
    /\ Has(Sh("j").map_, "j")
    /\ Has(Sh("j").ttl_, "j")

\* The value frame a gives to key: SET key value, MSET ... key value ...
ValueFor(a, key) ==
    IF upper(a[1]) = "SET" THEN a[3]
    ELSE a[(CHOOSE i \in 2..(Len(a) - 1) : i % 2 = 0 /\ a[i] = key) + 1]

\* C25: MSET is not atomic, but each of its writes is: whatever Shard::get
\* returns for a key is the value that the latest write of the key, of a
\* finished command or of one still running, installed.
C25_ReadsSeeInstalledValues ==
    (obs.op = "get" /\ ObsRet # nullopt) =>
        /\ wrote[obs.key] # << >>
        /\ ObsRet[1] = ValueFor(wrote[obs.key], obs.key)

\* MGET k j has replied the new value of k and the old value of j while
\* the MSET that writes both has written k and not yet j.
C25_TornRead ==
    /\ reply = << "*", << resp_bulk("w"), resp_bulk("v") >> >>
    /\ \E w \in Workers : args[w] = MsetNew /\ pc[w] = "set" /\ loc[w].i = 3
    /\ wrote["k"] = MsetNew
    /\ wrote["j"] = MsetOld

\* What k holds after HSET k f w g v, run alone.
BothFields == [x \in {"f", "g"} |-> IF x = "f" THEN "w" ELSE "v"]

\* C26: single-key commands are linearizable.  Of HSET k f w g v and DEL k
\* run one after the other in any order, k is absent or holds both fields
\* when no command is running, and HSET replies 2 (k was absent) or 0 (k
\* held both fields).
C26_HsetDelLinearizable ==
    /\ (\A w \in Workers : pc[w] = "idle") =>
          \/ ~Present(Sh("k"), "k")
          \/ ~Has(Sh("k").map_, "k") /\ Has(Sh("k").hmap_, "k")
                /\ Sh("k").hmap_["k"] = BothFields
    /\ (obs.op = "hset" /\ reply # << >>) => reply \in { resp_int(0), resp_int(2) }

\* The positions of the fields in HSET key f1 v1 ... fn vn, and the last
\* value the frame gives to a field.
FieldIx(a) == { i \in 3..(Len(a) - 1) : i % 2 = 1 }
LastValue(a, f) ==
    a[(CHOOSE i \in FieldIx(a) : a[i] = f /\ \A j \in FieldIx(a) : a[j] = f => j <= i) + 1]

\* The HSET handler has just made its last Shard::hset and replied.
HsetReplied == obs.op = "hset" /\ reply # << >>

\* C27: when HSET k f1 v1 ... fn vn has replied its count, the hash at k
\* holds for every fi the last value the command gave to it.
C27_HsetInstallsItsPairs ==
    HsetReplied =>
        /\ Has(Sh(obs.key).hmap_, obs.key)
        /\ \A i \in FieldIx(obs.args) :
              /\ Has(Sh(obs.key).hmap_[obs.key], obs.args[i])
              /\ Sh(obs.key).hmap_[obs.key][obs.args[i]] = LastValue(obs.args, obs.args[i])

\* C28: every hash stored in a shard has at least one field; HDEL k f replies
\* 1 exactly when f was a field of the hash at k and the deadline of k, if
\* any, had not passed; and when HDEL removes the last field the key is in
\* neither map any more (TYPE none, EXISTS 0).
C28_HdelOfLastFieldRemovesKey ==
    /\ \A s \in ShardIx : \A k \in DOMAIN shards_[s].hmap_ :
          DOMAIN shards_[s].hmap_[k] # {}
    /\ (Called /\ ObsCmd = "HDEL" /\ reply # << >>) =>
          (reply = resp_int(1) <=> (obs.args[3] \in obs.fields /\ ~PastAt(ObsTime)))
    /\ (obs.op = "hdel" /\ ObsRet = 1 /\ obs.left \notin {"hash", "both"}) =>
          obs.left = "none"

\* The text is a number of zero or less.
NonPositive(s) == stoll_ok(s) /\ stoll(s) <= 0

\* The frame gives a key a duration of zero or less.
ZeroFrame(a) ==
    /\ Len(a) > 0
    /\ \/ /\ upper(a[1]) = "SET"
          /\ Len(a) >= 5
          /\ upper(a[4]) \in {"EX", "PX"}
          /\ NonPositive(a[5])
       \/ /\ upper(a[1]) \in {"EXPIRE", "PEXPIRE"}
          /\ Len(a) >= 3
          /\ NonPositive(a[3])

\* What the observing commands reply for a key that is not there.
ReportsAbsent ==
    CASE ObsCmd \in {"GET", "HGET"} -> reply = resp_nil
      [] ObsCmd = "EXISTS" -> reply = resp_int(0)
      [] ObsCmd = "TYPE" -> reply = resp_bulk("none")
      [] ObsCmd = "TTL" -> reply = resp_int(-2)

\* C29: SET k v EX n or PX n with n <= 0 replies OK, and EXPIRE k n or
\* PEXPIRE k n with n <= 0 on a key that holds an unexpired string or hash
\* replies 1; either leaves k a deadline that is not after the current time;
\* and while that command is the last that wrote k, GET, EXISTS, TYPE, TTL and
\* HGET of k reply as for a key that is not there.
C29_NonPositiveDurationExpiresNow ==
    /\ (Called /\ reply # << >> /\ ObsCmd = "SET" /\ ZeroFrame(obs.args)) =>
          /\ reply = resp_simple("OK")
          /\ obs.dlleft # -1
          /\ obs.dlleft <= obs.clk
    /\ (Called /\ reply # << >> /\ ObsCmd \in {"EXPIRE", "PEXPIRE"} /\ ZeroFrame(obs.args)
           /\ obs.had # "none" /\ ~PastAt(ObsTime)) =>
          /\ reply = resp_int(1)
          /\ obs.dlleft # -1
          /\ obs.dlleft <= obs.clk
    /\ (Called /\ reply # << >> /\ ObsCmd \in {"GET", "EXISTS", "TYPE", "TTL", "HGET"}
           /\ ZeroFrame(wrote[obs.key])) =>
          ReportsAbsent

\* The threads that call Shard methods.
Threads == Workers \cup {Sweeper}

\* C30: a step that changes any of the three maps of a shard is the step of a
\* thread that holds the shard's lock in exclusive mode while no other thread
\* holds it in any mode, and gives the lock back; so the methods that take
\* the lock in shared mode (ttl_ms, hget, hexists, hlen, hgetall) change nothing,
\* and no reader or other writer is in the shard while it changes.
C30_ChangesUnderExclusiveLock ==
    [][\A s \in ShardIx :
          shards_'[s] # shards_[s] =>
             \E t \in Threads : mu_[s] = {<< t, "unique" >>} /\ mu_'[s] = {}]_vars

\* Shard::set has put a new key into the string map under the lock, its thread
\* holds the lock in exclusive mode again for set_expire, and another pool
\* thread with a method of shared mode to call is kept out of the shard.
C30_WriterKeepsReaderOut ==
    /\ obs.op = "set"
    /\ obs.had = "none"
    /\ obs.left = "string"
    /\ \E w, v \in Workers :
          /\ mu_[shard_for(obs.key)] = {<< w, "unique" >>}
          /\ pc[v] # "idle"
          /\ LockOf(pc[v]) = "shared"
          /\ ~CanLock(shard_for(A(v, 1)), "shared")

\* The shards whose lock thread t holds.
Held(t) == { s \in ShardIx : \E mode \in {"unique", "shared"} : Holds(t, s, mode) }

\* Worker w, inside a handler, holds the lock of its next call or can take it.
WorkerCanStep(w) ==
    /\ pc[w] # "idle"
    /\ \/ Holds(w, shard_for(NextKey(w)), LockOf(pc[w]))
       \/ CanLock(shard_for(NextKey(w)), LockOf(pc[w]))

\* Store::sweep_all, inside its loop, holds the lock of the next shard or can take it.
SweeperCanStep ==
    /\ sweepI < NumShards
    /\ \/ Holds(Sweeper, sweepI, "unique")
       \/ CanLock(sweepI, "unique")

\* C31: no thread holds the locks of two shards at once; a worker whose handler
\* has returned (its reply goes to the socket) and a sweeper whose sweep_all is
\* over hold no lock; and while any handler or sweep is unfinished, some thread
\* holds the lock it needs or can take it: there is no deadlock.
C31_OneLockAtATimeNoDeadlock ==
    /\ \A t \in Threads : Cardinality(Held(t)) <= 1
    /\ \A w \in Workers : pc[w] = "idle" => Held(w) = {}
    /\ sweepI = NumShards => Held(Sweeper) = {}
    /\ ((\E w \in Workers : pc[w] # "idle") \/ sweepI < NumShards) =>
          ((\E w \in Workers : WorkerCanStep(w)) \/ SweeperCanStep)

\* Two MSETs that visit the shards in opposite orders are each at their second
\* key, each holding the lock of the shard the other one left.
C31_CrossedMsets ==
    \E w, v \in Workers :
       /\ Cmd(w) = "MSET" /\ Cmd(v) = "MSET"
       /\ loc[w].i > 1 /\ loc[v].i > 1
       /\ Held(w) = {0}
       /\ Held(v) = {1}

\* C32: the thread of io.run(), which serves the sockets and the sweep timer,
\* holds the lock of no shard and never waits for one that a pool thread holds.
C32_IoThreadTakesNoShardLock ==
    /\ Held(Sweeper) = {}
    /\ sweepI < NumShards => CanLock(sweepI, "unique")

\* The frames the client sent on the connection, and the bytes of the first n.
SentFrames == framed[1]
SentUpTo(n) == Pipelined(SubSeq(SentFrames, 1, n))

\* C33: the frames handed to the pool are the first frames of the stream, each
\* once and in the stream's order, and no "-ERR proto" is posted; when the read
\* callback has returned, pending_ holds the bytes received after the last
\* frame handed over, which are fewer than the next frame has (none when no
\* frame follows); so when the whole stream is read, every frame was handed over.
C33_FramesSubmittedOnceInOrder ==
    /\ Len(q_) <= Len(SentFrames)
    /\ q_ = SubSeq(SentFrames, 1, Len(q_))
    /\ strand_ = << >>
    /\ ~reading =>
          /\ pending_ = Slice(stream, Len(SentUpTo(Len(q_))), fed)
          /\ IF Len(q_) = Len(SentFrames) THEN pending_ = << >>
             ELSE Len(pending_) < Len(resp_array_bytes(SentFrames[Len(q_) + 1]))

\* The two different frames of the stream are with the pool, the second one
\* handed over in the callback that has just returned on need-more.
C33_TwoFramesFromOneRead ==
    /\ ~reading
    /\ Len(q_) = 2
    /\ q_[1] # q_[2]
    /\ q_[2] # << >>
    /\ fed = Len(stream)
    /\ was.arr # nullopt
    /\ res = NeedMore

\* The replies handed to enqueue_write so far, in the order of the calls.
Enqueued == wire \o outq_

\* C34: at most one async_write is under way, and its message is the front of
\* outq_; outq_ loses its front only in the step that puts that message on
\* the socket; and the replies written followed by the replies queued change
\* only by enqueue_write adding its message at the end, so the socket gets the
\* replies in the order of the enqueue_write calls, each once.
C34_SingleWriterInOrder ==
    /\ [](Len(inflight) <= 1 /\ (inflight # << >> => outq_ # << >> /\ inflight[1] = Head(outq_)))
    /\ [][/\ (outq_' # outq_ /\ Len(outq_') <= Len(outq_)) =>
               (inflight # << >> /\ wire' = Append(wire, Head(outq_)) /\ outq_' = Tail(outq_))
          /\ wire' # wire => (outq_ # << >> /\ wire' = Append(wire, Head(outq_)) /\ outq_' = Tail(outq_))
          /\ Enqueued' # Enqueued =>
               (strand_ # << >> /\ Enqueued' = Append(Enqueued, Head(strand_)))]_vars

\* One reply is on the socket, the next is being written and a third waits
\* behind it in outq_.
C34_WriteUnderWayWithBacklog ==
    /\ Len(wire) = 1
    /\ Len(outq_) = 2
    /\ inflight = << Head(outq_) >>

\* C35: with one pool thread and frames only, the i-th reply on the socket is
\* the reply to the i-th request parsed from the connection.
C35_OneWorkerRepliesInOrder ==
    \A i \in DOMAIN wire : wire[i].id = i /\ wire[i].kind = "reply"

\* All of three pipelined requests are answered on the socket.
C35_ThreeAnswered == Len(wire) = 3

\* TTL has just found the deadline of its key passed and replied -2.
ReportedExpired ==
    /\ Called
    /\ obs.op = "ttl_ms"
    /\ ObsRet = -2
    /\ PastAt(obs.ts)
    /\ reply = resp_int(-2)

\* C36: when TTL k has replied -2 because the deadline of k passed, the next
\* step of any thread is a set or hset of k, or leaves k absent for the
\* commands after it (GET nil, TYPE none at the current time): no set_expire of
\* a concurrent EXPIRE or PEXPIRE gives the key a new life.
C36_ExpiredStaysAbsent ==
    [][ReportedExpired =>
          \/ obs'.op \in {"set", "hset"} /\ obs'.key = obs.key
          \/ /\ get(shards_'[shard_for(obs.key)], obs.key, clock').ret = nullopt
             /\ type_of(shards_'[shard_for(obs.key)], obs.key, clock').ret = "None"]_vars

\* A step of sweep_due that passes a key to on_expire.
Reported == Len(out') = Len(out) + 1

\* C37: in the expiry index, for any sequence of set, clear and sweep_due
\* calls, sweep_due(now) passes a key to on_expire only if the key's latest
\* call is a set(key, when) with when <= now (no clear and no later set came
\* after it); that set is reported at most once; the deadlines one sweep_due
\* reports are in non-decreasing order; and every sweep_due returns: each turn
\* of its loop that goes on takes a node off the heap.
C37_SweepReportsCurrentDueOnceInOrder ==
    /\ [][Reported =>
            LET r == out'[Len(out')]
            IN  /\ latest[r[1]] = Some(r[2])
                /\ r[2] <= sweeping[1]
                /\ r[1] \notin told
                /\ out # << >> => out[Len(out)][2] <= r[2]]_vars
    /\ [][sweeping # nullopt /\ sweeping' # nullopt =>
            Cardinality(impl_'.heap) < Cardinality(impl_.heap)]_vars
    /\ (sweeping # nullopt) ~> (sweeping = nullopt)

\* A sweep_due has returned after it reported a key and dropped the node of "j",
\* which a clear had made stale.
C37_StaleDroppedDueReported ==
    /\ sweeping = nullopt
    /\ out # << >>
    /\ impl_.heap = {}
    /\ Has(impl_.gens, "j")
    /\ latest["j"] = nullopt

====
